---- MODULE Spec2Model ----
(***************************************************************************)
(* lol-cal: the staleness-aware resource cache (src/resources.rs) and the  *)
(* windowed schedule viewport (src/widgets/events.rs).                     *)
(*                                                                         *)
(* Time is counted in minutes.  A DateTime is the instant it denotes; the  *)
(* local UTC offset only shows in the serialized form and in date_naive.   *)
(***************************************************************************)
EXTENDS Integers, Sequences, FiniteSets, TLC

VARIABLES
    now,        \* Local::now(), in minutes
    ticks,      \* how many times the clock has advanced
    tz,         \* the process's local UTC offset, in minutes
    disk,       \* cache_dir: key -> file (exists, bytes, mtime)
    written,    \* per key: the payload of the last completed cache_data, if any
    last,       \* per key: when the last call on it ran, and what it fetched if it did
    call,       \* the most recent get_leagues / get_schedule call, as it ran
    events,     \* the sorted visible events handed to get_events_bounds
    max_height, \* inner_area.height of the frame
    selected,   \* ScheduleState.selected
    offset,     \* ScheduleState.offset
    frame,      \* the most recent render: its inputs and the window computed
    pc,         \* App::run: "draw" before terminal.draw, "next" before events.next
    active,     \* Events.active: the league ids shown, in the order they were set
    store,      \* Events.events: league id -> the events last received for it
    leagues,    \* Leagues.leagues
    list_state, \* LeaguesState.list_state.selected: the cursor of the league list
    mode,       \* App.mode
    focused,    \* LeaguesState.focused and ScheduleState.focused
    queue,      \* EventHandler: the messages of background tasks not yet received
    tasks,      \* the background tasks in flight: what each still has to load
    config      \* Config: default_leagues, automatic_reload

cache_vars == <<now, ticks, tz, disk, written, last, call>>
view_vars  == <<events, max_height, selected, offset, frame, pc>>
app_vars   == <<active, store, leagues, list_state, mode, focused, queue, tasks, config>>
vars       == <<now, ticks, tz, disk, written, last, call,
                events, max_height, selected, offset, frame, pc,
                active, store, leagues, list_state, mode, focused, queue, tasks, config>>

(***************************************************************************)
(* Bounds of the model.                                                    *)
(***************************************************************************)
MaxTicks == 2
MaxLen == 4
MaxDays == 3
MaxHeight == 9
MaxSelected == 5
MaxTasks == 2
MaxQueue == 1
MaxSent == 2

(***************************************************************************)
(* Program constants.                                                      *)
(***************************************************************************)
LeaguesMaxAgeDays     == 7
ScheduleMaxAgeDays    == 3
ScheduleMinAgeMinutes == 5
DATE_HEIGHT           == 2
EVENT_HEIGHT          == 2

MinutesPerDay == 24 * 60
Days(n)    == n * MinutesPerDay
Minutes(n) == n
U16(n)     == n % (2 ^ 16)

Min2(a, b) == IF a <= b THEN a ELSE b
SatSub(a, b) == IF a >= b THEN a - b ELSE 0

(***************************************************************************)
(* Option values: None carries an empty payload so that every Option has   *)
(* the same shape.                                                         *)
(***************************************************************************)
None     == [some |-> FALSE, v |-> <<>>]
Some(x)  == [some |-> TRUE, v |-> <<x>>]
Unwrap(o) == o.v[1]

(***************************************************************************)
(* widgets::events: MatchState and StratType carry their display label.    *)
(***************************************************************************)
MatchStateFrom(name) ==
    CASE name = "completed"  -> [tag |-> "Completed",  s |-> "Completed"]
      [] name = "inProgress" -> [tag |-> "InProgress", s |-> "In progress"]
      [] name = "unstarted"  -> [tag |-> "Unstarted",  s |-> "Unstarted"]
      [] OTHER               -> [tag |-> "Unknown",    s |-> name]

get_string(state) == state.s

StratTypeFrom(name) ==
    CASE name = "bestOf"  -> [tag |-> "BestOf",  s |-> "Best of"]
      [] name = "playAll" -> [tag |-> "PlayAll", s |-> "Play all"]
      [] OTHER            -> [tag |-> "Unknown", s |-> name]

(***************************************************************************)
(* The remote API's records (net::schedule, net::leagues).  A start_time   *)
(* string is [utc |-> n] when it parses as a DateTime<Utc> denoting the    *)
(* instant n, and [text |-> s] when it does not parse.                     *)
(***************************************************************************)
ParsesAsUtc(str) == "utc" \in DOMAIN str

NetTeam(code, name, result) == [code |-> code, name |-> name, result |-> result]
NetResult(wins) == Some([game_wins |-> wins])

NetEvent(start, state, teams) ==
    [start_time  |-> start,
     block_name  |-> "Playoffs",
     match_field |-> [teams |-> teams, strategy |-> [type_field |-> "bestOf", count |-> 3]],
     state       |-> state,
     league      |-> [name |-> "LCK"]]

\* From<&net::schedule::Match> for Option<MatchResult>: indexes teams[0] and teams[1]
MatchResultPanics(net_match) == Len(net_match.teams) < 2

MatchResultFrom(net_match) ==
    LET rec0 == net_match.teams[1].result
        rec1 == net_match.teams[2].result
    IN  IF rec0.some /\ rec1.some
        THEN Some([game_wins |-> <<U16(Unwrap(rec0).game_wins), U16(Unwrap(rec1).game_wins)>>])
        ELSE None

\* From<net::schedule::Event> for Event: unwraps the parse, indexes the teams
EventFromPanics(net_event) ==
    \/ ~ParsesAsUtc(net_event.start_time)
    \/ MatchResultPanics(net_event.match_field)

EventFrom(net_event) ==
    [start_time  |-> net_event.start_time.utc,
     league_name |-> net_event.league.name,
     block_name  |-> net_event.block_name,
     strategy    |-> [strat_type |-> StratTypeFrom(net_event.match_field.strategy.type_field),
                      count      |-> U16(net_event.match_field.strategy.count)],
     state       |-> MatchStateFrom(net_event.state),
     result      |-> MatchResultFrom(net_event.match_field),
     teams       |-> [i \in 1..Len(net_event.match_field.teams) |->
                        [name  |-> net_event.match_field.teams[i].name,
                         short |-> net_event.match_field.teams[i].code]]]

NetLeague(id, name) ==
    [name |-> name, slug |-> name, id |-> id, image |-> "", priority |-> 1, region |-> "KOREA"]

LeagueFrom(net_league) ==
    [name     |-> net_league.name,
     region   |-> net_league.region,
     id       |-> net_league.id,
     selected |-> FALSE]

EventsFrom(net_events) == [i \in 1..Len(net_events) |-> EventFrom(net_events[i])]
LeaguesFrom(net_leagues) == [i \in 1..Len(net_leagues) |-> LeagueFrom(net_leagues[i])]

(***************************************************************************)
(* serde_json, as derived for widgets::events::Event and                   *)
(* widgets::leagues::League.  A JSON object is a record, an array a        *)
(* sequence, null is JsonNull; an enum value is the one-field object       *)
(* {"Variant": label}; a DateTime is its RFC 3339 text, i.e. the local     *)
(* wall-clock reading together with the UTC offset it was written under.   *)
(***************************************************************************)
JsonNull == [null |-> TRUE]

SerDateTime(t, off) == [local |-> t + off, offset |-> off]
\* variant: the offset written with a date is not applied when it is read
DeDateTime_IgnoresOffset(j) == j.local
DeDateTime(j)       == j.local - j.offset

SerEnum(e) == (e.tag :> e.s)
DeEnum(j)  == LET t == CHOOSE x \in DOMAIN j : TRUE IN [tag |-> t, s |-> j[t]]

MatchStateTags == {"Completed", "InProgress", "Unstarted", "Unknown"}
StratTypeTags  == {"BestOf", "PlayAll", "Unknown"}

IsEnumJson(j, tags) == Cardinality(DOMAIN j) = 1 /\ DOMAIN j \subseteq tags

SerResult(r) == IF r.some THEN [game_wins |-> Unwrap(r).game_wins] ELSE JsonNull
DeResult(j)  == IF "null" \in DOMAIN j THEN None ELSE Some([game_wins |-> j.game_wins])

SerEvent(e, off) ==
    [start_time  |-> SerDateTime(e.start_time, off),
     league_name |-> e.league_name,
     block_name  |-> e.block_name,
     strategy    |-> [strat_type |-> SerEnum(e.strategy.strat_type), count |-> e.strategy.count],
     state       |-> SerEnum(e.state),
     result      |-> SerResult(e.result),
     teams       |-> e.teams]

EventFields == {"start_time", "league_name", "block_name", "strategy", "state", "teams"}

IsEventJson(j) ==
    /\ EventFields \subseteq DOMAIN j
    /\ IsEnumJson(j.state, MatchStateTags)
    /\ IsEnumJson(j.strategy.strat_type, StratTypeTags)

DeEvent(j) ==
    [start_time  |-> DeDateTime(j.start_time),
     league_name |-> j.league_name,
     block_name  |-> j.block_name,
     strategy    |-> [strat_type |-> DeEnum(j.strategy.strat_type), count |-> j.strategy.count],
     state       |-> DeEnum(j.state),
     result      |-> IF "result" \in DOMAIN j THEN DeResult(j.result) ELSE None,
     teams       |-> j.teams]

SerLeague(l) == [name |-> l.name, region |-> l.region, id |-> l.id, selected |-> l.selected]

LeagueFields == {"name", "region", "id", "selected"}

IsLeagueJson(j) == LeagueFields \subseteq DOMAIN j

DeLeague(j) == [name |-> j.name, region |-> j.region, id |-> j.id, selected |-> j.selected]

(***************************************************************************)
(* The bytes of a file are either a complete JSON array or a cut-off one.  *)
(* T is "leagues" (Vec<League>) or "schedule" (Vec<Event>).                *)
(***************************************************************************)
Bytes(doc) == [complete |-> TRUE, doc |-> doc]
Truncated  == [complete |-> FALSE, doc |-> <<>>]

\* serde_json::to_vec(data)
to_vec(T, data, off) ==
    Bytes([i \in 1..Len(data) |->
             IF T = "leagues" THEN SerLeague(data[i]) ELSE SerEvent(data[i], off)])

\* serde_json::from_slice(&contents)
from_slice(T, bytes) ==
    LET shaped(j) == IF T = "leagues" THEN IsLeagueJson(j) ELSE IsEventJson(j)
        de(j)     == IF T = "leagues" THEN DeLeague(j) ELSE DeEvent(j)
    IN  IF bytes.complete /\ \A i \in 1..Len(bytes.doc) : shaped(bytes.doc[i])
        THEN [ok |-> TRUE,  data |-> [i \in 1..Len(bytes.doc) |-> de(bytes.doc[i])]]
        ELSE [ok |-> FALSE, data |-> <<>>]

(***************************************************************************)
(* The cache directory: one file per key; the timestamp of a record is the *)
(* file's own modification time.                                           *)
(***************************************************************************)
NoFile == [exists |-> FALSE, bytes |-> Truncated, mtime |-> 0]
File(bytes, mtime) == [exists |-> TRUE, bytes |-> bytes, mtime |-> mtime]

LeaguesKey == "leagues.json"
CachePath(slug) == slug \o ".json"

\* What the file system lets a write get through: all of it, nothing because
\* create_dir_all or File::create failed, or File::create (which truncates) and
\* then a failing write_all.
WriteOutcomes == {"ok", "create_dir_all", "create", "write_all"}
\* What fails in a read of an existing file, if anything.
ReadFaults == {"none", "open", "read_to_end", "metadata"}

\* variant: reports success without creating the file
cache_data_SkipsWrite(file, T, data, off, outcome, t) ==
    CASE outcome \in {"create_dir_all", "create"} -> [ok |-> FALSE, file |-> file]
      [] outcome = "write_all" -> [ok |-> FALSE, file |-> File(Truncated, t)]
      [] OTHER                 -> [ok |-> TRUE,  file |-> file]

cache_data(file, T, data, off, outcome, t) ==
    CASE outcome \in {"create_dir_all", "create"} -> [ok |-> FALSE, file |-> file]
      [] outcome = "write_all" -> [ok |-> FALSE, file |-> File(Truncated, t)]
      [] OTHER                 -> [ok |-> TRUE,  file |-> File(to_vec(T, data, off), t)]

load_from_cache(file, T, fault) ==
    IF ~file.exists THEN [kind |-> "NotFound", data |-> <<>>, time |-> 0]
    ELSE IF fault # "none" THEN [kind |-> "IOError", data |-> <<>>, time |-> 0]
    ELSE LET parsed == from_slice(T, file.bytes)
         IN  IF parsed.ok
             THEN [kind |-> "Ok", data |-> parsed.data, time |-> file.mtime]
             ELSE [kind |-> "Corrupt", data |-> <<>>, time |-> 0]

(***************************************************************************)
(* ResourceManager                                                         *)
(***************************************************************************)
\* variant: a record of exactly the maximum age is already too old
LeaguesVerdict_Inclusive(cached_time, t) ==
    IF cached_time <= t - Days(LeaguesMaxAgeDays) THEN "TooOld" ELSE "Fresh"

\* get_leagues, lines 69-73: "TooOld" is the break 'fetch
LeaguesVerdict(cached_time, t) ==
    IF cached_time < t - Days(LeaguesMaxAgeDays) THEN "TooOld" ELSE "Fresh"

\* get_schedule, lines 121-123
has_invalid_event(evs, t) ==
    \E i \in 1..Len(evs) : get_string(evs[i].state) = "Unstarted" /\ evs[i].start_time < t

\* variant: the content of a record is never looked at
ScheduleVerdict_AgeOnly(evs, cached_time, t) ==
    IF cached_time < t - Days(ScheduleMaxAgeDays) THEN "TooOld" ELSE "Fresh"

\* variant: the content is looked at before the five-minute debounce
ScheduleVerdict_NoDebounce(evs, cached_time, t) ==
    IF cached_time < t - Days(ScheduleMaxAgeDays) THEN "TooOld"
    ELSE IF has_invalid_event(evs, t) THEN "ContentInvalid"
    ELSE "Fresh"

\* get_schedule, lines 110-129: every verdict but "Fresh" is a break 'fetch
ScheduleVerdict(evs, cached_time, t) ==
    IF cached_time < t - Days(ScheduleMaxAgeDays) THEN "TooOld"
    ELSE IF cached_time > t - Minutes(ScheduleMinAgeMinutes) THEN "Fresh"
    ELSE IF has_invalid_event(evs, t) THEN "ContentInvalid"
    ELSE "Fresh"

\* One run of get_leagues / get_schedule on the file of its key: what it
\* loaded, what it decided, whether it fetched and wrote, the file it leaves
\* and what it returns ("Some" data, "None", or "Panic" when a conversion of
\* the fetched records panics and the call never returns).
Run(loaded, verdict, fetch, wrote, file, ret, data) ==
    [load |-> loaded, verdict |-> verdict, fetch |-> fetch, wrote |-> wrote,
     file |-> file, ret |-> ret, data |-> data]

\* variant: a failed cache write is propagated as None
get_leagues_WriteErrorIsNone(file, fault, resp, outcome, t, off) ==
    LET loaded  == load_from_cache(file, "leagues", fault)
        verdict == IF loaded.kind = "Ok" THEN LeaguesVerdict(loaded.time, t) ELSE "Miss"
    IN  IF verdict = "Fresh"
        THEN Run(loaded.kind, verdict, "none", "none", file, "Some", loaded.data)
        ELSE IF ~resp.ok
        THEN Run(loaded.kind, verdict, "err", "none", file, "None", <<>>)
        ELSE LET fetched == LeaguesFrom(resp.leagues)
                 cached  == cache_data(file, "leagues", fetched, off, outcome, t)
             IN  IF cached.ok
                 THEN Run(loaded.kind, verdict, "ok", outcome, cached.file, "Some", fetched)
                 ELSE Run(loaded.kind, verdict, "ok", outcome, cached.file, "None", <<>>)

get_leagues(file, fault, resp, outcome, t, off) ==
    LET loaded  == load_from_cache(file, "leagues", fault)
        verdict == IF loaded.kind = "Ok" THEN LeaguesVerdict(loaded.time, t) ELSE "Miss"
    IN  IF verdict = "Fresh"
        THEN Run(loaded.kind, verdict, "none", "none", file, "Some", loaded.data)
        ELSE IF ~resp.ok
        THEN Run(loaded.kind, verdict, "err", "none", file, "None", <<>>)
        ELSE LET fetched == LeaguesFrom(resp.leagues)
                 cached  == cache_data(file, "leagues", fetched, off, outcome, t)
             IN  Run(loaded.kind, verdict, "ok", outcome, cached.file, "Some", fetched)

\* net::schedule::fetch_schedule(client, slug, page): without a page token the
\* remote answers with its first page; with the token of the older page it
\* answers with the events of the week before, and reports no further page
fetch_schedule(resp, page) ==
    IF ~page.some THEN resp
    ELSE [ok     |-> resp.ok,
          events |-> [i \in 1..Len(resp.events) |->
                        [resp.events[i] EXCEPT
                           !.start_time = [utc |-> resp.events[i].start_time.utc - Days(7)]]],
          leagues |-> resp.leagues,
          pages  |-> [older |-> None, newer |-> None]]

\* variant: a failed fetch falls back to the record that was loaded
get_schedule_StaleFallback(file, fault, resp, outcome, t, off) ==
    LET loaded  == load_from_cache(file, "schedule", fault)
        verdict == IF loaded.kind = "Ok"
                   THEN ScheduleVerdict(loaded.data, loaded.time, t) ELSE "Miss"
    IN  IF verdict = "Fresh"
        THEN Run(loaded.kind, verdict, "none", "none", file, "Some", loaded.data)
        ELSE IF ~resp.ok /\ loaded.kind = "Ok"
        THEN Run(loaded.kind, verdict, "err", "none", file, "Some", loaded.data)
        ELSE IF ~resp.ok
        THEN Run(loaded.kind, verdict, "err", "none", file, "None", <<>>)
        ELSE IF \E i \in 1..Len(resp.events) : EventFromPanics(resp.events[i])
        THEN Run(loaded.kind, verdict, "ok", "none", file, "Panic", <<>>)
        ELSE LET evs    == EventsFrom(resp.events)
                 cached == cache_data(file, "schedule", evs, off, outcome, t)
             IN  Run(loaded.kind, verdict, "ok", outcome, cached.file, "Some", evs)

\* variant: a record that is reused is written back, which renews its timestamp
get_schedule_RewritesOnRead(file, fault, resp, outcome, t, off) ==
    LET loaded  == load_from_cache(file, "schedule", fault)
        verdict == IF loaded.kind = "Ok"
                   THEN ScheduleVerdict(loaded.data, loaded.time, t) ELSE "Miss"
    IN  IF verdict = "Fresh"
        THEN Run(loaded.kind, verdict, "none", "none",
                 cache_data(file, "schedule", loaded.data, off, "ok", t).file,
                 "Some", loaded.data)
        ELSE IF ~resp.ok
        THEN Run(loaded.kind, verdict, "err", "none", file, "None", <<>>)
        ELSE IF \E i \in 1..Len(resp.events) : EventFromPanics(resp.events[i])
        THEN Run(loaded.kind, verdict, "ok", "none", file, "Panic", <<>>)
        ELSE LET evs    == EventsFrom(resp.events)
                 cached == cache_data(file, "schedule", evs, off, outcome, t)
             IN  Run(loaded.kind, verdict, "ok", outcome, cached.file, "Some", evs)

\* variant: when the response reports an older page, that page is requested
\* too and its events are put in front
get_schedule_FollowsOlder(file, fault, resp, outcome, t, off) ==
    LET loaded   == load_from_cache(file, "schedule", fault)
        verdict  == IF loaded.kind = "Ok"
                    THEN ScheduleVerdict(loaded.data, loaded.time, t) ELSE "Miss"
        schedule == fetch_schedule(resp, None)
    IN  IF verdict = "Fresh"
        THEN Run(loaded.kind, verdict, "none", "none", file, "Some", loaded.data)
        ELSE IF ~schedule.ok
        THEN Run(loaded.kind, verdict, "err", "none", file, "None", <<>>)
        ELSE IF \E i \in 1..Len(schedule.events) : EventFromPanics(schedule.events[i])
        THEN Run(loaded.kind, verdict, "ok", "none", file, "Panic", <<>>)
        ELSE LET older  == IF schedule.pages.older.some
                           THEN fetch_schedule(resp, schedule.pages.older).events ELSE <<>>
                 evs    == EventsFrom(older \o schedule.events)
                 cached == cache_data(file, "schedule", evs, off, outcome, t)
             IN  Run(loaded.kind, verdict, "ok", outcome, cached.file, "Some", evs)

\* get_schedule: the one request is fetch_schedule(&client, slug, None)
get_schedule(file, fault, resp, outcome, t, off) ==
    LET loaded   == load_from_cache(file, "schedule", fault)
        verdict  == IF loaded.kind = "Ok"
                    THEN ScheduleVerdict(loaded.data, loaded.time, t) ELSE "Miss"
        schedule == fetch_schedule(resp, None)
    IN  IF verdict = "Fresh"
        THEN Run(loaded.kind, verdict, "none", "none", file, "Some", loaded.data)
        ELSE IF ~schedule.ok
        THEN Run(loaded.kind, verdict, "err", "none", file, "None", <<>>)
        ELSE IF \E i \in 1..Len(schedule.events) : EventFromPanics(schedule.events[i])
        THEN Run(loaded.kind, verdict, "ok", "none", file, "Panic", <<>>)
        ELSE LET evs    == EventsFrom(schedule.events)
                 cached == cache_data(file, "schedule", evs, off, outcome, t)
             IN  Run(loaded.kind, verdict, "ok", outcome, cached.file, "Some", evs)

(***************************************************************************)
(* The viewport of the schedule: get_events_bounds and the frame loop.     *)
(* Indices are the code's (from 0); events[i] of the code is evs[i + 1].   *)
(***************************************************************************)
\* event.start_time.date_naive(): the day of the start time on the local clock
date_naive(event) == (event.start_time + tz) \div MinutesPerDay

\* the locals of get_events_bounds; panic: an index out of bounds or a
\* subtraction below zero ended the call
Locals(first_visible_index, last_visible_index, height_from_offset, last_date) ==
    [first |-> first_visible_index, last |-> last_visible_index,
     height |-> height_from_offset, last_date |-> last_date,
     panic |-> FALSE]

Panicked(st) == [st EXCEPT !.panic = TRUE]

\* lines 207-222: fill forward from the offset while lines are left
RECURSIVE FillForward(_, _, _)
FillForward(evs, max, st) ==
    IF st.last >= Len(evs) THEN st
    ELSE IF st.height + EVENT_HEIGHT > max THEN st
    ELSE LET current_date == date_naive(evs[st.last + 1]) IN
         IF Some(current_date) # st.last_date
         THEN IF st.height + DATE_HEIGHT + EVENT_HEIGHT > max THEN st
              ELSE FillForward(evs, max,
                     [st EXCEPT !.height = @ + DATE_HEIGHT + EVENT_HEIGHT,
                                !.last_date = Some(current_date),
                                !.last = @ + 1])
         ELSE FillForward(evs, max,
                [st EXCEPT !.height = @ + EVENT_HEIGHT, !.last = @ + 1])

\* lines 237-252: drop events at the front while the window is too high
RECURSIVE DropFirst(_, _, _)
DropFirst(evs, max, st) ==
    IF st.panic \/ st.height <= max THEN st
    ELSE IF st.first >= Len(evs) THEN Panicked(st)
    ELSE IF st.first + 1 <= st.last /\ st.first + 1 >= Len(evs) THEN Panicked(st)
    ELSE LET first_date == date_naive(evs[st.first + 1])
             second_last_date == IF st.first + 1 <= st.last
                                 THEN Some(date_naive(evs[st.first + 2]))
                                 ELSE None
             height == IF Some(first_date) # second_last_date
                       THEN SatSub(st.height, DATE_HEIGHT) ELSE st.height
         IN  DropFirst(evs, max,
               [st EXCEPT !.height = SatSub(height, EVENT_HEIGHT), !.first = @ + 1])

\* lines 226-253: extend the window downwards until it holds the index
RECURSIVE GrowLast(_, _, _, _)
GrowLast(evs, max, index_to_display, st) ==
    IF st.panic \/ index_to_display < st.last THEN st
    ELSE IF st.last >= Len(evs) THEN Panicked(st)
    ELSE LET date == date_naive(evs[st.last + 1])
             changed == Some(date) # st.last_date
             height == IF changed THEN st.height + DATE_HEIGHT ELSE st.height
         IN  GrowLast(evs, max, index_to_display,
               DropFirst(evs, max,
                 [st EXCEPT !.height = height + EVENT_HEIGHT,
                            !.last_date = IF changed THEN Some(date) ELSE @,
                            !.last = @ + 1]))

\* lines 265-272: drop events at the back while the window is too high
RECURSIVE DropLast(_, _, _)
DropLast(evs, max, st) ==
    IF st.panic \/ st.height <= max THEN st
    ELSE IF st.last = 0 \/ st.last - 1 >= Len(evs) THEN Panicked(st)
    ELSE IF st.last - 1 = 0 THEN Panicked(st)
    ELSE LET last_date == date_naive(evs[st.last])
             height == IF last_date # date_naive(evs[st.last - 1])
                       THEN SatSub(st.height, DATE_HEIGHT) ELSE st.height
         IN  DropLast(evs, max,
               [st EXCEPT !.last = @ - 1, !.height = SatSub(height, EVENT_HEIGHT)])

\* lines 255-273: extend the window upwards until it holds the index
RECURSIVE GrowFirst(_, _, _, _)
GrowFirst(evs, max, index_to_display, st) ==
    IF st.panic \/ index_to_display >= st.first THEN st
    ELSE IF st.first >= Len(evs) THEN Panicked(st)
    ELSE LET first_date == date_naive(evs[st.first])
             height == IF first_date # date_naive(evs[st.first + 1])
                       THEN st.height + DATE_HEIGHT ELSE st.height
         IN  GrowFirst(evs, max, index_to_display,
               DropLast(evs, max,
                 [st EXCEPT !.height = height + EVENT_HEIGHT, !.first = @ - 1]))

Window(kind, first_visible_index, last_visible_index) ==
    [kind |-> kind, first |-> first_visible_index, last |-> last_visible_index]

\* variant: the window is anchored at the selection, not at the offset of
\* the frame before
get_events_bounds_FromSelection(evs, sel, off, max) ==
    LET anchor  == IF sel.some THEN Unwrap(sel) ELSE off
        clamped == Min2(anchor, SatSub(Len(evs), 1))
        filled  == FillForward(evs, max, Locals(clamped, clamped, 0, None))
        index_to_display == IF sel.some THEN Unwrap(sel) ELSE filled.first
        st == GrowFirst(evs, max, index_to_display,
                GrowLast(evs, max, index_to_display, filled))
    IN  IF st.panic THEN Window("panic", 0, 0) ELSE Window("ok", st.first, st.last)

\* variant: the front of the window stays where the forward fill began
get_events_bounds_KeepsFirst(evs, sel, off, max) ==
    LET clamped == Min2(off, SatSub(Len(evs), 1))
        filled  == FillForward(evs, max, Locals(clamped, clamped, 0, None))
        index_to_display == IF sel.some THEN Unwrap(sel) ELSE filled.first
        grown == GrowLast(evs, max, index_to_display, filled)
        st == GrowFirst(evs, max, index_to_display, [grown EXCEPT !.first = filled.first])
    IN  IF st.panic THEN Window("panic", 0, 0) ELSE Window("ok", st.first, st.last)

\* variant: the end of the window stays where the forward fill left it
get_events_bounds_locals_KeepsLast(evs, sel, off, max) ==
    LET clamped == Min2(off, SatSub(Len(evs), 1))
        filled  == FillForward(evs, max, Locals(clamped, clamped, 0, None))
        index_to_display == IF sel.some THEN Unwrap(sel) ELSE filled.first
        grown == GrowLast(evs, max, index_to_display, filled)
        st == GrowFirst(evs, max, index_to_display, grown)
    IN  IF st.first < grown.first THEN [st EXCEPT !.last = grown.last] ELSE st

\* lines 200-276: the locals of get_events_bounds when it returns
get_events_bounds_locals(evs, sel, off, max) ==
    LET clamped == Min2(off, SatSub(Len(evs), 1))
        filled  == FillForward(evs, max, Locals(clamped, clamped, 0, None))
        index_to_display == IF sel.some THEN Unwrap(sel) ELSE filled.first
    IN  GrowFirst(evs, max, index_to_display,
          GrowLast(evs, max, index_to_display, filled))

get_events_bounds(evs, sel, off, max) ==
    LET st == get_events_bounds_locals(evs, sel, off, max)
    IN  IF st.panic THEN Window("panic", 0, 0) ELSE Window("ok", st.first, st.last)

(***************************************************************************)
(* The environment of the cache: league ids, what the remote API may       *)
(* answer, the clock.                                                      *)
(***************************************************************************)
Slugs == {"lck"}
Keys  == {LeaguesKey} \cup {CachePath(slug) : slug \in Slugs}
KindOf(key) == IF key = LeaguesKey THEN "leagues" ELSE "schedule"

FarFuture == Days(1000)

T1  == NetTeam("T1", "T1", NetResult(2))
GEN == NetTeam("GEN", "Gen.G", NetResult(1))
TBD == NetTeam("TBD", "TBD", None)

\* a finished match and one due at minute 6
NetScheduleA == <<NetEvent([utc |-> 0], "completed", <<T1, GEN>>),
                  NetEvent([utc |-> 6], "unstarted", <<TBD, TBD>>)>>
\* nothing that can go out of date
NetScheduleB == <<NetEvent([utc |-> 1], "inProgress", <<T1, GEN>>),
                  NetEvent([utc |-> FarFuture], "unstarted", <<T1, TBD>>)>>
\* states the client does not know, one of them spelled like a label
NetScheduleC == <<NetEvent([utc |-> 2], "Unstarted", <<T1, GEN>>),
                  NetEvent([utc |-> 2], "postponed", <<T1, GEN>>)>>
\* records the conversion cannot take
NetScheduleNoTime  == <<NetEvent([text |-> "TBD"], "unstarted", <<T1, GEN>>)>>
NetScheduleOneTeam == <<NetEvent([utc |-> 2], "unstarted", <<T1>>)>>

FetchErr == [ok |-> FALSE, events |-> <<>>, leagues |-> <<>>,
             pages |-> [older |-> None, newer |-> None]]
FetchedSchedule(evs, older) ==
    [ok |-> TRUE, events |-> evs, leagues |-> <<>>,
     pages |-> [older |-> older, newer |-> None]]
FetchedLeagues(ls) ==
    [ok |-> TRUE, events |-> <<>>, leagues |-> ls,
     pages |-> [older |-> None, newer |-> None]]

ScheduleResponses ==
    {FetchErr,
     FetchedSchedule(NetScheduleA, Some("b2xkZXI")),
     FetchedSchedule(NetScheduleB, None),
     FetchedSchedule(NetScheduleNoTime, None),
     FetchedSchedule(NetScheduleOneTeam, None)}

LeaguesResponses ==
    {FetchErr,
     FetchedLeagues(<<NetLeague("lck", "LCK"), NetLeague("lec", "LEC")>>)}

LocalOffset == 2 * 60

\* how far the clock moves at once: around each threshold of the policies
Deltas == {Minutes(ScheduleMinAgeMinutes) - 1, Minutes(ScheduleMinAgeMinutes),
           Days(ScheduleMaxAgeDays), Days(LeaguesMaxAgeDays)}

(***************************************************************************)
(* The cache in use: calls of get_leagues and get_schedule, one at a time, *)
(* against a cache directory left by earlier runs, while the clock moves.  *)
(***************************************************************************)
NoCall ==
    [op |-> "none", key |-> "", load |-> "none", verdict |-> "none", fetch |-> "none",
     wrote |-> "none", ret |-> "none", data |-> <<>>]

NoLast == [fetched |-> FALSE, cached |-> FALSE, at |-> 0, data |-> <<>>]

\* the files an earlier run can have left under a key: none, one of another
\* shape, or a payload it fetched and wrote (then under UTC)
EarlierPayloads(T) ==
    IF T = "leagues"
    THEN {LeaguesFrom(<<NetLeague("lec", "LEC")>>)}
    ELSE {EventsFrom(NetScheduleC)}

OtherKind(T) == IF T = "leagues" THEN "schedule" ELSE "leagues"

EarlierFiles(key) ==
    {NoFile}
    \cup {File(to_vec(KindOf(key), data, 0), 0) : data \in EarlierPayloads(KindOf(key))}
    \cup {File(to_vec(OtherKind(KindOf(key)), data, 0), 0) :
            data \in EarlierPayloads(OtherKind(KindOf(key)))}

WrittenBy(key, file) ==
    IF file \in {File(to_vec(KindOf(key), data, 0), 0) : data \in EarlierPayloads(KindOf(key))}
    THEN Some(CHOOSE data \in EarlierPayloads(KindOf(key)) :
                file = File(to_vec(KindOf(key), data, 0), 0))
    ELSE None

\* a frame: the window get_events_bounds returned ("ok"), or that it
\* panicked, or that the list was empty or the region blank; what was
\* selected; the height of
\* the region; and the same of the frame before it
Drawn(kind, first_visible_index, last_visible_index, sel, height) ==
    [kind |-> kind, first |-> first_visible_index, last |-> last_visible_index,
     selected |-> sel, max_height |-> height]

NoFrame ==
    [kind |-> "none", first |-> 0, last |-> 0, selected |-> None, max_height |-> 0,
     rows |-> <<>>,
     before |-> Drawn("none", 0, 0, None, 0)]

\* the focus flags of the two panes
Focus(of_leagues, of_schedule) == [leagues_state |-> of_leagues, schedule_state |-> of_schedule]

\* App::new: nothing loaded, nothing in flight
AppIdle ==
    /\ active = <<>>
    /\ store = <<>>
    /\ leagues = <<>>
    /\ list_state = None
    /\ mode = "None"
    /\ focused = Focus(FALSE, FALSE)
    /\ queue = <<>>
    /\ tasks = <<>>
    /\ config = [default_leagues |-> <<>>, automatic_reload |-> TRUE]

ViewIdle ==
    /\ events = <<>>
    /\ max_height = 0
    /\ selected = None
    /\ offset = 0
    /\ frame = NoFrame
    /\ pc = "idle"

CacheInit ==
    /\ now = 0
    /\ ticks = 0
    /\ tz = LocalOffset
    /\ disk \in [Keys -> UNION {EarlierFiles(k) : k \in Keys}]
    /\ \A k \in Keys : disk[k] \in EarlierFiles(k)
    /\ written = [k \in Keys |-> WrittenBy(k, disk[k])]
    /\ last = [slug \in Slugs |-> NoLast]
    /\ call = NoCall
    /\ ViewIdle
    /\ AppIdle

\* the clock moves; what a call fetched is remembered for as long as the
\* debounce of the schedule policy lasts
Tick ==
    /\ call.op = "none"
    /\ ticks < MaxTicks
    /\ \E d \in Deltas :
        /\ now' = now + d
        /\ last' = [slug \in Slugs |->
                      IF last[slug].fetched
                         /\ now + d - last[slug].at < Minutes(ScheduleMinAgeMinutes)
                      THEN last[slug] ELSE NoLast]
    /\ ticks' = ticks + 1
    /\ UNCHANGED <<tz, disk, written, call>>

\* the bookkeeping every call shares
Finish(op, key, run) ==
    /\ disk' = [disk EXCEPT ![key] = run.file]
    /\ written' = [written EXCEPT ![key] =
                     CASE run.wrote = "ok"        -> Some(run.data)
                       [] run.wrote = "write_all" -> None
                       [] OTHER                   -> @]
    /\ call' = [op |-> op, key |-> key, load |-> run.load, verdict |-> run.verdict,
                fetch |-> run.fetch, wrote |-> run.wrote, ret |-> run.ret,
                data |-> run.data]
    /\ UNCHANGED <<now, ticks, tz>>

\* the inputs of a call that it gets to see: a read fault only if there is a
\* file, an answer of the API only if it fetches, an outcome of the write
\* only if it writes
Faults(file) == IF file.exists THEN ReadFaults ELSE {"none"}
Answers(probe, responses) == IF probe.fetch = "none" THEN {FetchErr} ELSE responses
Outcomes(probe) == IF probe.wrote = "none" THEN {"ok"} ELSE WriteOutcomes

GetLeagues ==
    /\ call.op = "none"
    /\ \E fault \in Faults(disk[LeaguesKey]) :
       \E resp \in Answers(get_leagues(disk[LeaguesKey], fault, FetchErr, "ok", now, tz),
                           LeaguesResponses) :
       \E outcome \in Outcomes(get_leagues(disk[LeaguesKey], fault, resp, "ok", now, tz)) :
          Finish("get_leagues", LeaguesKey,
                 get_leagues(disk[LeaguesKey], fault, resp, outcome, now, tz))
    /\ UNCHANGED last

GetSchedule(slug) ==
    LET file == disk[CachePath(slug)] IN
    /\ call.op = "none"
    /\ \E fault \in Faults(file) :
       \E resp \in Answers(get_schedule(file, fault, FetchErr, "ok", now, tz),
                           ScheduleResponses) :
       \E outcome \in Outcomes(get_schedule(file, fault, resp, "ok", now, tz)) :
          LET run == get_schedule(file, fault, resp, outcome, now, tz) IN
          /\ Finish("get_schedule", CachePath(slug), run)
          /\ last' = [last EXCEPT ![slug] =
                        IF run.fetch = "ok" /\ run.ret = "Some"
                        THEN [fetched |-> TRUE, cached |-> run.wrote = "ok",
                              at |-> now, data |-> run.data]
                        ELSE NoLast]

\* the caller takes the result
Return ==
    /\ call.op # "none"
    /\ call' = NoCall
    /\ UNCHANGED <<now, ticks, tz, disk, written, last>>

CacheNext ==
    \/ Tick /\ UNCHANGED <<view_vars, app_vars>>
    \/ Return /\ UNCHANGED <<view_vars, app_vars>>
    \/ GetLeagues /\ UNCHANGED <<view_vars, app_vars>>
    \/ \E slug \in Slugs : GetSchedule(slug) /\ UNCHANGED <<view_vars, app_vars>>

SpecCache == CacheInit /\ [][CacheNext]_vars

(***************************************************************************)
(* What a step of the cache is, for the properties below.                  *)
(***************************************************************************)
(* The schedule pane: ScheduleState, the render of a frame and the keys    *)
(* that move the selection.  App::run draws a frame, then handles one      *)
(* event, then draws again.                                                *)
(***************************************************************************)
\* ScheduleState::select
select(state, index) ==
    [selected |-> index, offset |-> IF index.some THEN state.offset ELSE 0]

\* scroll_up_by with a plain subtraction
scroll_up_by_PlainSub(state, amount) ==
    IF state.selected.some
    THEN [state EXCEPT !.selected = Some(Unwrap(state.selected) - amount)]
    ELSE [state EXCEPT !.selected = Some(state.offset)]

\* ScheduleState::scroll_up_by, scroll_down_by
scroll_up_by(state, amount) ==
    IF state.selected.some
    THEN [state EXCEPT !.selected = Some(SatSub(Unwrap(state.selected), amount))]
    ELSE [state EXCEPT !.selected = Some(state.offset)]

scroll_down_by(state, amount) ==
    IF state.selected.some
    THEN [state EXCEPT !.selected = Some(Unwrap(state.selected) + amount)]
    ELSE [state EXCEPT !.selected = Some(state.offset)]

ScheduleState == [selected |-> selected, offset |-> offset]

\* an event of the list starting on the given day
ViewEvent(day) == EventFrom(NetEvent([utc |-> Days(day)], "unstarted", <<T1, GEN>>))

\* the visible lists: up to MaxLen events over MaxDays days, sorted by start time
SortedDays ==
    {days \in UNION {[1..n -> 0..(MaxDays - 1)] : n \in 0..MaxLen} :
        \A i \in 1..Len(days) : \A j \in i..Len(days) : days[i] <= days[j]}

VisibleLists == {[i \in 1..Len(days) |-> ViewEvent(days[i])] : days \in SortedDays}

\* a row of the region: the line between two days ("line"), the name of a
\* day ("date"), the upper or lower row of the event at index ("top", "low")
Row(what, index) == [what |-> what, index |-> index]

\* render_ref, lines 425-608: the loop over the events from the offset on;
\* current_height is the number of rows drawn so far
RECURSIVE DrawRows(_, _, _, _)
DrawRows(evs, max, i, st) ==
    IF i >= Len(evs) THEN st.rows
    ELSE LET date     == date_naive(evs[i + 1])
             new_date == Some(date) # st.last_date
             line     == new_date /\ st.last_date # None
             lined    == IF line THEN Append(st.rows, Row("line", i)) ELSE st.rows
             dated    == IF new_date THEN Append(lined, Row("date", i)) ELSE lined
             topped   == Append(dated, Row("top", i))
         IN  IF line /\ Len(st.rows) + 1 > max THEN st.rows
             ELSE IF new_date /\ Len(lined) + 1 > max THEN lined
             ELSE IF Len(dated) + 1 > max THEN dated
             ELSE IF Len(topped) + 1 > max THEN topped
             ELSE DrawRows(evs, max, i + 1,
                           [rows |-> Append(topped, Row("low", i)), last_date |-> Some(date)])

\* variant: the line between two days is drawn above the first day as well
render_rows_LineFirst(evs, first_visible_index, max) ==
    DrawRows(evs, max, first_visible_index, [rows |-> <<>>, last_date |-> Some(0 - 1)])

\* the rows render_ref draws, from state.offset on
render_rows(evs, first_visible_index, max) ==
    DrawRows(evs, max, first_visible_index, [rows |-> <<>>, last_date |-> None])

Frame(window, sel, height, rows) ==
    [kind |-> window.kind, first |-> window.first, last |-> window.last,
     selected |-> sel, max_height |-> height, rows |-> rows,
     before |-> Drawn(frame.kind, frame.first, frame.last, frame.selected,
                      frame.max_height)]

\* a frame is due for some list, region height, selection and offset left by
\* earlier frames and events; the cache is not touched
ViewInit ==
    /\ now = 0
    /\ ticks = 0
    /\ tz = LocalOffset
    /\ disk = [k \in Keys |-> NoFile]
    /\ written = [k \in Keys |-> None]
    /\ last = [slug \in Slugs |-> NoLast]
    /\ call = NoCall
    /\ events \in VisibleLists
    /\ max_height \in 0..MaxHeight
    /\ selected \in {None} \cup {Some(i) : i \in 0..MaxLen}
    /\ offset \in 0..MaxLen
    /\ frame = NoFrame
    /\ pc = "draw"
    /\ AppIdle

\* render_ref, lines 378-608: the state it leaves, the window it computed and
\* the rows it drew; nothing is done for a region without rows
render_ref(evs) ==
    /\ pc = "draw"
    /\ IF max_height = 0
       THEN /\ UNCHANGED <<selected, offset>>
            /\ frame' = Frame(Window("blank", 0, 0), selected, max_height, <<>>)
            /\ pc' = "next"
       ELSE IF evs = <<>>
       THEN /\ selected' = None
            /\ offset' = offset
            /\ frame' = Frame(Window("empty", 0, 0), None, max_height, <<>>)
            /\ pc' = "next"
       ELSE LET clamped == IF selected.some /\ Unwrap(selected) >= Len(evs)
                           THEN select(ScheduleState, Some(SatSub(Len(evs), 1)))
                           ELSE ScheduleState
                window  == get_events_bounds(evs, clamped.selected, clamped.offset,
                                             max_height)
            IN  /\ selected' = clamped.selected
                /\ offset' = IF window.kind = "ok" THEN window.first ELSE clamped.offset
                /\ frame' = Frame(window, clamped.selected, max_height,
                                 IF window.kind = "ok"
                                 THEN render_rows(evs, window.first, max_height)
                                 ELSE <<>>)
                /\ pc' = IF window.kind = "ok" THEN "next" ELSE "panicked"
    /\ UNCHANGED max_height

\* a frame of a list that no event changes
Render == render_ref(events) /\ UNCHANGED events

\* App::handle_up, handle_down with the schedule pane in focus; the index
\* selected is followed up to MaxSelected
Up ==
    /\ pc = "next"
    /\ selected' = scroll_up_by(ScheduleState, 1).selected
    /\ pc' = "draw"
    /\ UNCHANGED <<events, max_height, offset, frame>>

Down ==
    /\ pc = "next"
    /\ selected.some => Unwrap(selected) < MaxSelected
    /\ selected' = scroll_down_by(ScheduleState, 1).selected
    /\ pc' = "draw"
    /\ UNCHANGED <<events, max_height, offset, frame>>

\* the terminal is resized: the event itself is ignored, the next frame
\* draws into a region of another height
Resize ==
    /\ pc = "next"
    /\ \E height \in 0..MaxHeight : height # max_height /\ max_height' = height
    /\ pc' = "draw"
    /\ UNCHANGED <<events, selected, offset, frame>>

ViewNext ==
    \/ Render /\ UNCHANGED <<cache_vars, app_vars>>
    \/ Up /\ UNCHANGED <<cache_vars, app_vars>>
    \/ Down /\ UNCHANGED <<cache_vars, app_vars>>
    \/ Resize /\ UNCHANGED <<cache_vars, app_vars>>

SpecBounds == ViewInit /\ [][ViewNext]_vars

(***************************************************************************)
(* The dashboard: the index of events (Events), the league list (Leagues), *)
(* the selection of the schedule pane, the handlers of App and the         *)
(* background tasks that load leagues and schedules.                       *)
(***************************************************************************)
Range(seq) == {seq[i] : i \in 1..Len(seq)}

\* add_events that keeps what was stored and appends
add_events_Appends(index, slug, evs) ==
    (slug :> (IF slug \in DOMAIN index THEN index[slug] \o evs ELSE evs)) @@ index

\* Events::add_events: HashMap::insert
add_events(index, slug, evs) == (slug :> evs) @@ index

\* set_active that pushes without looking
set_active_AlwaysPush(act, slug) == Append(act, slug)

\* Events::set_active, unset_active
set_active(act, slug) == IF slug \in Range(act) THEN act ELSE Append(act, slug)

\* unset_active that removes nothing
unset_active_Keeps(act, slug) == act

unset_active(act, slug) ==
    IF slug \in Range(act)
    THEN LET pos == CHOOSE i \in 1..Len(act) :
                      act[i] = slug /\ \A j \in 1..(i - 1) : act[j] # slug
         IN  SubSeq(act, 1, pos - 1) \o SubSeq(act, pos + 1, Len(act))
    ELSE act

\* the order in which the HashMap of the index hands out its keys: some
\* order of its own, the same for as long as the map is not changed
IterationOrder == <<"lec", "lck">>

\* sort_by_key(|event| event.start_time): a stable sort
RECURSIVE InsertByStart(_, _)
InsertByStart(sorted, event) ==
    IF sorted = <<>> THEN <<event>>
    ELSE IF sorted[Len(sorted)].start_time <= event.start_time
    THEN Append(sorted, event)
    ELSE Append(InsertByStart(SubSeq(sorted, 1, Len(sorted) - 1), event),
                sorted[Len(sorted)])

RECURSIVE sort_by_key(_)
sort_by_key(evs) ==
    IF evs = <<>> THEN <<>>
    ELSE InsertByStart(sort_by_key(SubSeq(evs, 1, Len(evs) - 1)), evs[Len(evs)])

\* render_ref lines 295-300 and select_today lines 129-134: the events of
\* the leagues that are active, as the map hands them out
\* the collection without the filter on the active leagues
RECURSIVE Collected_AllStored(_, _, _)
Collected_AllStored(index, act, order) ==
    IF order = <<>> THEN <<>>
    ELSE (IF Head(order) \in DOMAIN index THEN index[Head(order)] ELSE <<>>)
         \o Collected_AllStored(index, act, Tail(order))

RECURSIVE Collected(_, _, _)
Collected(index, act, order) ==
    IF order = <<>> THEN <<>>
    ELSE (IF Head(order) \in DOMAIN index /\ Head(order) \in Range(act)
          THEN index[Head(order)] ELSE <<>>)
         \o Collected(index, act, Tail(order))

visible_events(index, act) == sort_by_key(Collected(index, act, IterationOrder))

\* ScheduleState::select_today on the visible events, at time t
\* the predicate without the matches in progress
Qualifies_StartOnly(event, t) == event.start_time >= t

Qualifies(event, t) == event.start_time >= t \/ event.state.tag = "InProgress"

\* select_today that forgets the selection when nothing is visible
select_today_ClearsEmpty(state, evs, t) ==
    IF evs = <<>> THEN [selected |-> None, offset |-> 0]
    ELSE LET sel == IF \E i \in 1..Len(evs) : Qualifies(evs[i], t)
                    THEN (CHOOSE i \in 1..Len(evs) :
                            Qualifies(evs[i], t)
                            /\ \A j \in 1..(i - 1) : ~Qualifies(evs[j], t)) - 1
                    ELSE Len(evs) - 1
         IN  [selected |-> Some(sel), offset |-> sel]

select_today(state, evs, t) ==
    IF evs = <<>> THEN state
    ELSE LET sel == IF \E i \in 1..Len(evs) : Qualifies(evs[i], t)
                    THEN (CHOOSE i \in 1..Len(evs) :
                            Qualifies(evs[i], t)
                            /\ \A j \in 1..(i - 1) : ~Qualifies(evs[j], t)) - 1
                    ELSE Len(evs) - 1
         IN  [selected |-> Some(sel), offset |-> sel]

\* select that sets the flag instead of flipping it
Leagues_select_SetsFlag(ls, cursor) ==
    IF cursor.some /\ Unwrap(cursor) < Len(ls)
    THEN LET i == Unwrap(cursor) + 1
             flagged == [ls EXCEPT ![i].selected = TRUE]
         IN  [leagues |-> flagged, report |-> Some(<<TRUE, flagged[i].id>>)]
    ELSE [leagues |-> ls, report |-> None]

\* Leagues::select with the cursor of the list: the list it leaves and what
\* it reports
Leagues_select(ls, cursor) ==
    IF cursor.some /\ Unwrap(cursor) < Len(ls)
    THEN LET i == Unwrap(cursor) + 1
             flipped == [ls EXCEPT ![i].selected = ~ls[i].selected]
         IN  [leagues |-> flipped, report |-> Some(<<flipped[i].selected, flipped[i].id>>)]
    ELSE [leagues |-> ls, report |-> None]

\* Leagues::select_name
select_name(ls, to_select) ==
    IF \E i \in 1..Len(ls) : ls[i].name = to_select
    THEN LET i == CHOOSE i \in 1..Len(ls) :
                    ls[i].name = to_select /\ \A j \in 1..(i - 1) : ls[j].name # to_select
         IN  [leagues |-> [ls EXCEPT ![i].selected = TRUE], id |-> Some(ls[i].id)]
    ELSE [leagues |-> ls, id |-> None]

\* Leagues::get_selected_ids
RECURSIVE get_selected_ids(_)
get_selected_ids(ls) ==
    IF ls = <<>> THEN <<>>
    ELSE (IF Head(ls).selected THEN <<Head(ls).id>> ELSE <<>>) \o get_selected_ids(Tail(ls))

\* Leagues::set_leagues: the list received replaces the list shown
set_leagues(ls, received) == received

\* ListState of the league list: scroll_up_by, scroll_down_by, select_first,
\* and what List::render does to the cursor
list_scroll_up_by(cursor, amount) ==
    Some(SatSub(IF cursor.some THEN Unwrap(cursor) ELSE 0, amount))

list_scroll_down_by(cursor, amount) ==
    Some((IF cursor.some THEN Unwrap(cursor) ELSE 0) + amount)

list_render(cursor, len) ==
    IF len = 0 THEN None
    ELSE IF cursor.some /\ Unwrap(cursor) >= len THEN Some(len - 1)
    ELSE cursor

\* what the tasks can be given: the time of the run, the leagues of the
\* API, the schedules of each league, the ways to configure the dashboard
AppNow == Days(1) + 12 * 60

AppEvent(league, start, state) ==
    EventFrom([NetEvent([utc |-> start], state, <<T1, GEN>>) EXCEPT !.league = [name |-> league]])

AppLeagues == LeaguesFrom(<<NetLeague("lck", "LCK"), NetLeague("lec", "LEC")>>)

LeagueIds == {AppLeagues[i].id : i \in 1..Len(AppLeagues)}

SchedulesOf(slug) ==
    IF slug = "lck"
    THEN {<<AppEvent("LCK", Days(0) + 600, "completed"),
            AppEvent("LCK", Days(1) + 900, "unstarted"),
            AppEvent("LCK", Days(2) + 600, "unstarted")>>,
          <<AppEvent("LCK", Days(0) + 600, "completed")>>}
    ELSE {<<AppEvent("LEC", Days(1) + 660, "inProgress"),
            AppEvent("LEC", Days(2) + 600, "unstarted")>>}

AppConfigs ==
    {[default_leagues |-> <<>>, automatic_reload |-> TRUE],
     [default_leagues |-> <<"LPL", "LCK">>, automatic_reload |-> FALSE]}

\* a region too low for a date and an event, and one with room for some
AppHeights == {DATE_HEIGHT + EVENT_HEIGHT - 1, MaxHeight}

\* the messages of the channel and the tasks behind them
Message(kind, slug, data) == [kind |-> kind, slug |-> slug, data |-> data]

\* a task in flight is inside the get_leagues or get_schedule of the first
\* thing it has left to do
Task(op, todo) == [op |-> op, todo |-> todo]

TaskKey(task) == IF task.op = "get_leagues" THEN LeaguesKey ELSE CachePath(Head(task.todo))

\* App::reload_leagues, reload_schedule: the tasks in flight afterwards
reload_leagues(ts) == Append(ts, Task("get_leagues", <<"leagues">>))

\* a reload that asks for the first of the selected leagues only
reload_schedule_FirstOnly(ts, ls) ==
    IF get_selected_ids(ls) = <<>> THEN ts
    ELSE Append(ts, Task("get_schedule", <<Head(get_selected_ids(ls))>>))

reload_schedule(ts, ls) ==
    IF get_selected_ids(ls) = <<>> THEN ts
    ELSE Append(ts, Task("get_schedule", get_selected_ids(ls)))

\* App::set_active on the active list and the tasks, given the league list
App_set_active(app, slug) ==
    [app EXCEPT !.active = set_active(app.active, slug),
                !.tasks = IF config.automatic_reload
                          THEN reload_schedule(app.tasks, app.leagues) ELSE app.tasks]

\* App::run, RecieveLeagues, lines 195-201: the default leagues are selected
RECURSIVE SelectDefaults(_, _)
SelectDefaults(app, names) ==
    IF names = <<>> THEN app
    ELSE LET found == select_name(app.leagues, Head(names))
         IN  SelectDefaults(
               IF found.id.some
               THEN App_set_active([app EXCEPT !.leagues = found.leagues], Unwrap(found.id))
               ELSE app,
               Tail(names))

AppState == [leagues |-> leagues, active |-> active, tasks |-> tasks]

\* a handler has run: the frame on the screen is out of date, the next thing
\* is a new one, of the events that are visible now
Refocused(app, state, cursor, index, m, flags) ==
    /\ Len(app.tasks) <= MaxTasks
    /\ focused' = flags
    /\ leagues' = app.leagues
    /\ active' = app.active
    /\ tasks' = app.tasks
    /\ selected' = state.selected
    /\ offset' = state.offset
    /\ list_state' = cursor
    /\ store' = index
    /\ mode' = m
    /\ pc' = "draw"
    /\ frame' = NoFrame
    /\ events' = visible_events(index, app.active)
    /\ UNCHANGED <<max_height, config>>

\* a handler that leaves the focus flags alone
Handled(app, state, cursor, index, m) == Refocused(app, state, cursor, index, m, focused)

Today(state, index, act) == select_today(state, visible_events(index, act), now)

\* App::handle_up, handle_down
handle_up ==
    CASE mode = "Leagues" ->
           Handled(AppState, ScheduleState, list_scroll_up_by(list_state, 1), store, mode)
      [] mode = "Events" ->
           Handled(AppState, scroll_up_by(ScheduleState, 1), list_state, store, mode)
      [] OTHER -> Handled(AppState, ScheduleState, list_state, store, mode)

handle_down ==
    CASE mode = "Leagues" ->
           /\ list_state.some => Unwrap(list_state) < MaxSelected
           /\ Handled(AppState, ScheduleState, list_scroll_down_by(list_state, 1), store, mode)
      [] mode = "Events" ->
           /\ selected.some => Unwrap(selected) < MaxSelected
           /\ Handled(AppState, scroll_down_by(ScheduleState, 1), list_state, store, mode)
      [] OTHER -> Handled(AppState, ScheduleState, list_state, store, mode)

\* App::handle_left, handle_right
\* handle_left that leaves the schedule pane focused
handle_left_KeepsSchedule ==
    IF mode = "Leagues" THEN Handled(AppState, ScheduleState, list_state, store, mode)
    ELSE Refocused(AppState, ScheduleState, list_state, store, "Leagues",
                   [focused EXCEPT !.leagues_state = TRUE])

handle_left ==
    IF mode = "Leagues" THEN Handled(AppState, ScheduleState, list_state, store, mode)
    ELSE Refocused(AppState, ScheduleState, list_state, store, "Leagues", Focus(TRUE, FALSE))

handle_right ==
    IF mode = "Events" THEN Handled(AppState, ScheduleState, list_state, store, mode)
    ELSE Refocused(AppState, ScheduleState, list_state, store, "Events", Focus(FALSE, TRUE))

\* App::handle_select
handle_select ==
    LET toggled == Leagues_select(leagues, list_state)
        flipped == [AppState EXCEPT !.leagues = toggled.leagues]
        app == IF toggled.report.v[1][1]
               THEN App_set_active(flipped, toggled.report.v[1][2])
               ELSE [flipped EXCEPT !.active = unset_active(active, toggled.report.v[1][2])]
    IN  IF mode = "Leagues" /\ toggled.report.some
        THEN Handled(app, Today(ScheduleState, store, app.active), list_state, store, mode)
        ELSE Handled(AppState, ScheduleState, list_state, store, mode)

\* App::run: GotoToday, ReloadLeagues, ReloadSchedule, Quit
GotoToday == Handled(AppState, Today(ScheduleState, store, active), list_state, store, mode)

ReloadLeagues ==
    Handled([AppState EXCEPT !.tasks = reload_leagues(tasks)], ScheduleState, list_state,
            store, mode)

ReloadSchedule ==
    Handled([AppState EXCEPT !.tasks = reload_schedule(tasks, leagues)], ScheduleState,
            list_state, store, mode)

Quit ==
    /\ pc' = "quit"
    /\ UNCHANGED <<events, max_height, selected, offset, frame, active, store, leagues,
                   list_state, mode, focused, tasks, config>>

\* App::run: RecieveLeagues, RecieveSchedule
RecieveLeagues(received) ==
    LET replaced == [AppState EXCEPT !.leagues = set_leagues(leagues, received)]
    IN  IF replaced.leagues # <<>>
        THEN Handled(SelectDefaults(replaced, config.default_leagues), ScheduleState,
                     Some(0), store, mode)
        ELSE Handled(replaced, ScheduleState, list_state, store, mode)

\* an owner that drops the schedule of a league that is no longer active
RecieveSchedule_ActiveOnly(slug, evs) ==
    IF \E i \in 1..Len(active) : active[i] = slug
    THEN Handled(AppState, Today(ScheduleState, add_events(store, slug, evs), active),
                 list_state, add_events(store, slug, evs), mode)
    ELSE Handled(AppState, ScheduleState, list_state, store, mode)

RecieveSchedule(slug, evs) ==
    Handled(AppState, Today(ScheduleState, add_events(store, slug, evs), active),
            list_state, add_events(store, slug, evs), mode)

\* App::new and App::init: nothing loaded, the request for the leagues is
\* the first message; the terminal has some height and the configuration is
\* one of those a user can write
AppInit ==
    /\ now = AppNow
    /\ ticks = 0
    /\ tz = LocalOffset
    /\ disk = [k \in Keys |-> NoFile]
    /\ written = [k \in Keys |-> None]
    /\ last = [slug \in Slugs |-> NoLast]
    /\ call = NoCall
    /\ events = <<>>
    /\ max_height \in AppHeights
    /\ selected = None
    /\ offset = 0
    /\ frame = NoFrame
    /\ pc = "draw"
    /\ active = <<>>
    /\ store = <<>>
    /\ leagues = <<>>
    /\ list_state = None
    /\ mode = "None"
    /\ focused = Focus(FALSE, FALSE)
    /\ queue = <<Message("ReloadLeagues", "", <<>>)>>
    /\ tasks = <<>>
    /\ config \in AppConfigs

\* App::draw: the league list, then the schedule of the active leagues
Draw ==
    /\ render_ref(visible_events(store, active))
    /\ UNCHANGED events
    /\ list_state' = list_render(list_state, Len(leagues))
    /\ UNCHANGED <<active, store, leagues, mode, focused, queue, tasks, config>>

\* App::run: the next message is one a task or init sent
Receive ==
    /\ pc = "next"
    /\ queue # <<>>
    /\ queue' = Tail(queue)
    /\ CASE Head(queue).kind = "RecieveLeagues" -> RecieveLeagues(Head(queue).data)
         [] Head(queue).kind = "RecieveSchedule" ->
              RecieveSchedule(Head(queue).slug, Head(queue).data)
         [] OTHER -> ReloadLeagues

\* App::run: the next message is a key of the user
Key(handler) ==
    /\ pc = "next"
    /\ handler
    /\ UNCHANGED queue

Without(ts, i) == SubSeq(ts, 1, i - 1) \o SubSeq(ts, i + 1, Len(ts))

\* the get_leagues or get_schedule of a task returns: what it got is sent, a
\* task for schedules goes on to its next league
TaskEnd(i, result) ==
    /\ result.some => Len(queue) < MaxQueue
    /\ queue' = IF ~result.some THEN queue
                ELSE IF tasks[i].op = "get_leagues"
                THEN Append(queue, Message("RecieveLeagues", "", Unwrap(result)))
                ELSE Append(queue, Message("RecieveSchedule", Head(tasks[i].todo),
                                           Unwrap(result)))
    /\ tasks' = IF Len(tasks[i].todo) = 1 THEN Without(tasks, i)
                ELSE [tasks EXCEPT ![i].todo = Tail(tasks[i].todo)]
    /\ UNCHANGED <<events, max_height, selected, offset, frame, pc, active, store,
                   leagues, list_state, mode, focused, config>>

TaskResults(task) ==
    {None} \cup (IF task.op = "get_leagues" THEN {Some(AppLeagues)}
                 ELSE {Some(evs) : evs \in SchedulesOf(Head(task.todo))})

AppNext ==
    \/ Draw /\ UNCHANGED cache_vars
    \/ Receive /\ UNCHANGED cache_vars
    \/ Key(handle_up) /\ UNCHANGED cache_vars
    \/ Key(handle_down) /\ UNCHANGED cache_vars
    \/ Key(handle_left) /\ UNCHANGED cache_vars
    \/ Key(handle_right) /\ UNCHANGED cache_vars
    \/ Key(handle_select) /\ UNCHANGED cache_vars
    \/ Key(GotoToday) /\ UNCHANGED cache_vars
    \/ Key(ReloadLeagues) /\ UNCHANGED cache_vars
    \/ Key(ReloadSchedule) /\ UNCHANGED cache_vars
    \/ Key(Quit) /\ UNCHANGED cache_vars
    \/ \E i \in 1..Len(tasks) : \E result \in TaskResults(tasks[i]) :
         TaskEnd(i, result) /\ UNCHANGED cache_vars

SpecApp == AppInit /\ [][AppNext]_vars

(***************************************************************************)
(* The dashboard with its tasks at work on the cache: every task runs      *)
(* get_leagues or get_schedule on the file of what it has to get next,     *)
(* the answer of the API and the faults of the file system being what      *)
(* they may; the user moves in the league list, toggles leagues and asks   *)
(* for the schedules again.                                                *)
(***************************************************************************)
FetchKeys == {LeaguesKey} \cup {CachePath(id) : id \in LeagueIds}

\* what the API answers for the schedule of a league: an error, its matches,
\* or a record without a start time
NetScheduleOf(slug) ==
    IF slug = "lck"
    THEN <<[NetEvent([utc |-> Days(0) + 600], "completed", <<T1, GEN>>)
              EXCEPT !.league = [name |-> "LCK"]],
           [NetEvent([utc |-> Days(1) + 900], "unstarted", <<T1, GEN>>)
              EXCEPT !.league = [name |-> "LCK"]]>>
    ELSE <<[NetEvent([utc |-> Days(1) + 660], "inProgress", <<T1, GEN>>)
              EXCEPT !.league = [name |-> "LEC"]]>>

FetchResponses(slug) ==
    {FetchErr, FetchedSchedule(NetScheduleOf(slug), None),
     FetchedSchedule(NetScheduleNoTime, None)}

\* App::new and App::init in an empty cache directory, with the default
\* configuration
FetchInit ==
    /\ now = AppNow
    /\ ticks = 0
    /\ tz = LocalOffset
    /\ disk = [k \in FetchKeys |-> NoFile]
    /\ written = [k \in FetchKeys |-> None]
    /\ last = [slug \in Slugs |-> NoLast]
    /\ call = NoCall
    /\ events = <<>>
    /\ max_height = MaxHeight
    /\ selected = None
    /\ offset = 0
    /\ frame = NoFrame
    /\ pc = "draw"
    /\ active = <<>>
    /\ store = <<>>
    /\ leagues = <<>>
    /\ list_state = None
    /\ mode = "None"
    /\ focused = Focus(FALSE, FALSE)
    /\ queue = <<Message("ReloadLeagues", "", <<>>)>>
    /\ tasks = <<>>
    /\ config = [default_leagues |-> <<>>, automatic_reload |-> TRUE]

\* a task that puts its message in front of those waiting
TaskTakes_Prepends(i, run) ==
    /\ run.ret = "Some" => Len(queue) < MaxSent
    /\ queue' = IF run.ret # "Some" THEN queue
                ELSE IF tasks[i].op = "get_leagues"
                THEN <<Message("RecieveLeagues", "", run.data)>> \o queue
                ELSE <<Message("RecieveSchedule", Head(tasks[i].todo), run.data)>> \o queue
    /\ tasks' = IF run.ret = "Panic" \/ Len(tasks[i].todo) = 1 THEN Without(tasks, i)
                ELSE [tasks EXCEPT ![i].todo = Tail(tasks[i].todo)]

\* a task that goes on to its next league without sending what it got
TaskTakes_Drops(i, run) ==
    /\ run.ret = "Some" => Len(queue) < MaxSent
    /\ queue' = IF run.ret = "Some" /\ tasks[i].op = "get_leagues"
                THEN Append(queue, Message("RecieveLeagues", "", run.data)) ELSE queue
    /\ tasks' = IF run.ret = "Panic" \/ Len(tasks[i].todo) = 1 THEN Without(tasks, i)
                ELSE [tasks EXCEPT ![i].todo = Tail(tasks[i].todo)]

\* what the task does with the result of a call: Some is sent, None is
\* dropped, and a panic inside the call ends the task where it is
TaskTakes(i, run) ==
    /\ run.ret = "Some" => Len(queue) < MaxSent
    /\ queue' = IF run.ret # "Some" THEN queue
                ELSE IF tasks[i].op = "get_leagues"
                THEN Append(queue, Message("RecieveLeagues", "", run.data))
                ELSE Append(queue, Message("RecieveSchedule", Head(tasks[i].todo), run.data))
    /\ tasks' = IF run.ret = "Panic" \/ Len(tasks[i].todo) = 1 THEN Without(tasks, i)
                ELSE [tasks EXCEPT ![i].todo = Tail(tasks[i].todo)]

\* the faults the file system shows a task: a read that fails or not, a
\* write that gets through or breaks off
FetchFaults(file) == IF file.exists THEN {"none", "open"} ELSE {"none"}

FetchOutcomes == {"ok", "write_all"}

\* the call of a task has run on the file of key
TaskCalled(i, key, run) ==
    /\ Finish(tasks[i].op, key, run)
    /\ TaskTakes(i, run)
    /\ UNCHANGED <<last, events, max_height, selected, offset, frame, pc, active, store,
                   leagues, list_state, mode, focused, config>>

\* the owner moves: call is the last call of a task since it did
OwnerMoves ==
    /\ call' = NoCall
    /\ UNCHANGED <<now, ticks, tz, disk, written, last>>

\* the task of reload_leagues calls get_leagues
TaskGetsLeagues(i) ==
    /\ tasks[i].op = "get_leagues"
    /\ \E fault \in FetchFaults(disk[LeaguesKey]) :
       \E resp \in LeaguesResponses :
       \E outcome \in FetchOutcomes :
          TaskCalled(i, LeaguesKey,
                     get_leagues(disk[LeaguesKey], fault, resp, outcome, now, tz))

\* a task of reload_schedule calls get_schedule for the next of its leagues
TaskGetsSchedule(i) ==
    /\ tasks[i].op = "get_schedule"
    /\ \E fault \in FetchFaults(disk[CachePath(Head(tasks[i].todo))]) :
       \E resp \in FetchResponses(Head(tasks[i].todo)) :
       \E outcome \in FetchOutcomes :
          TaskCalled(i, CachePath(Head(tasks[i].todo)),
                     get_schedule(disk[CachePath(Head(tasks[i].todo))], fault, resp,
                                  outcome, now, tz))

FetchNext ==
    \/ Draw /\ OwnerMoves
    \/ Receive /\ OwnerMoves
    \/ Key(handle_down) /\ OwnerMoves
    \/ Key(handle_left) /\ OwnerMoves
    \/ Key(handle_select) /\ OwnerMoves
    \/ Key(ReloadSchedule) /\ OwnerMoves
    \/ \E i \in 1..Len(tasks) : TaskGetsLeagues(i)
    \/ \E i \in 1..Len(tasks) : TaskGetsSchedule(i)

SpecFetch == FetchInit /\ [][FetchNext]_vars

\* the scheduling of the dashboard. The owner loop draws whenever it has a
\* frame to draw: the step that takes pc from "draw" is that of Draw, which
\* can always be taken there. The channel is one queue, so a message in it
\* is received after the keys that were sent before it: the step that takes
\* the head of the queue is that of Receive, and the keys that come in
\* between disable it again and again. The runtime runs every task that was
\* spawned, and a send on the unbounded channel never waits: the step that
\* ends the call of the task at i takes its league from what it has to do,
\* or the task from those in flight.
DrawStep == pc = "draw" /\ pc' \in {"next", "panicked"}

ReceiveStep == pc = "next" /\ queue # <<>> /\ queue' = Tail(queue)

TaskStep(i) ==
    /\ i \in 1..Len(tasks)
    /\ tasks' \in {Without(tasks, i), [tasks EXCEPT ![i].todo = Tail(@)]}

Fairness ==
    /\ WF_pc(DrawStep)
    /\ SF_queue(ReceiveStep)
    /\ \A i \in 1..MaxTasks : WF_tasks(TaskStep(i))

SpecFetchFair == SpecFetch /\ Fairness

(***************************************************************************)
(* The same dashboard with the calls of get_schedule taken apart at their  *)
(* awaits: a task reads the record and awaits the answer of the API, then  *)
(* awaits the write of the record, then sends; other tasks run in between. *)
(* The writes succeed and the reads do not fail; the schedule of a league  *)
(* at the API may have changed from one request to the next.               *)
(***************************************************************************)
RaceResponses(slug) ==
    {FetchedSchedule(NetScheduleOf(slug), None),
     FetchedSchedule(SubSeq(NetScheduleOf(slug), 1, 1), None)}

\* a task inside a call of get_schedule: what it holds and what it awaits next
Started(task) == "got" \in DOMAIN task

Holding(task, evs, next) == [op |-> task.op, todo |-> task.todo, got |-> evs, at |-> next]

TaskMoves ==
    /\ call' = NoCall
    /\ UNCHANGED <<now, ticks, tz, last, events, max_height, selected, offset, frame, pc,
                   active, store, leagues, list_state, mode, focused, config>>

\* get_schedule, lines 98-137: load_from_cache, the verdict, fetch_schedule
AwaitFetch(i) ==
    /\ tasks[i].op = "get_schedule"
    /\ ~Started(tasks[i])
    /\ LET loaded  == load_from_cache(disk[CachePath(Head(tasks[i].todo))], "schedule", "none")
           verdict == IF loaded.kind = "Ok"
                      THEN ScheduleVerdict(loaded.data, loaded.time, now) ELSE "Miss"
       IN  IF verdict = "Fresh"
           THEN tasks' = [tasks EXCEPT ![i] = Holding(@, loaded.data, "send")]
           ELSE \E resp \in RaceResponses(Head(tasks[i].todo)) :
                   tasks' = [tasks EXCEPT ![i] =
                               Holding(@, EventsFrom(fetch_schedule(resp, None).events), "write")]
    /\ UNCHANGED <<disk, written, queue>>
    /\ TaskMoves

\* get_schedule, lines 145-151: cache_data, then the events are returned
AwaitWrite(i) ==
    /\ Started(tasks[i])
    /\ tasks[i].at = "write"
    /\ disk' = [disk EXCEPT ![CachePath(Head(tasks[i].todo))] =
                  cache_data(@, "schedule", tasks[i].got, tz, "ok", now).file]
    /\ written' = [written EXCEPT ![CachePath(Head(tasks[i].todo))] = Some(tasks[i].got)]
    /\ tasks' = [tasks EXCEPT ![i].at = "send"]
    /\ UNCHANGED queue
    /\ TaskMoves

\* reload_schedule, lines 148-153: the events are sent, the loop goes on
SendResult(i) ==
    /\ Started(tasks[i])
    /\ tasks[i].at = "send"
    /\ Len(queue) < MaxSent
    /\ queue' = Append(queue, Message("RecieveSchedule", Head(tasks[i].todo), tasks[i].got))
    /\ tasks' = IF Len(tasks[i].todo) = 1 THEN Without(tasks, i)
                ELSE [tasks EXCEPT ![i] = Task(@.op, Tail(@.todo))]
    /\ UNCHANGED <<disk, written>>
    /\ TaskMoves

RaceNext ==
    \/ Draw /\ OwnerMoves
    \/ Receive /\ OwnerMoves
    \/ Key(handle_down) /\ OwnerMoves
    \/ Key(handle_left) /\ OwnerMoves
    \/ Key(handle_select) /\ OwnerMoves
    \/ Key(ReloadSchedule) /\ OwnerMoves
    \/ \E i \in 1..Len(tasks) : TaskGetsLeagues(i)
    \/ \E i \in 1..Len(tasks) : AwaitFetch(i)
    \/ \E i \in 1..Len(tasks) : AwaitWrite(i)
    \/ \E i \in 1..Len(tasks) : SendResult(i)

SpecRace == FetchInit /\ [][RaceNext]_vars

(***************************************************************************)
\* this step is a call of op
Called(op) == call.op = "none" /\ call'.op = op
CalledAny  == call.op = "none" /\ call'.op # "none"

\* the age of the record of key at the time of the call
Age(key) == now - disk[key].mtime

\* the record key holds after the step is exactly data, stamped with the time
\* of the call
Holds(key, data) ==
    /\ disk'[key].exists
    /\ disk'[key].mtime = now
    /\ from_slice(KindOf(key), disk'[key].bytes) = [ok |-> TRUE, data |-> data]

WriteFailures == WriteOutcomes \ {"ok"}
LoadFailures  == {"NotFound", "Corrupt", "IOError"}

(***************************************************************************)
(* C1: for every age and content of a cached schedule that get_schedule    *)
(* loads, it refetches exactly as the three-zone table says: age > 3 days  *)
(* refetch; otherwise age < 5 minutes reuse; otherwise refetch iff the     *)
(* content check (has_invalid_event) finds an invalid unstarted event.     *)
(***************************************************************************)
TableRefetches(age, invalid) ==
    CASE age > Days(3)    -> TRUE
      [] age < Minutes(5) -> FALSE
      [] OTHER            -> invalid

C1_ThreeZoneTable ==
    [][Called("get_schedule") /\ call'.load = "Ok"
       => (call'.fetch # "none")
          = TableRefetches(Age(call'.key),
                           has_invalid_event(Unwrap(written[call'.key]), now))]_vars

\* a record younger than 5 minutes was reused although its content is out of date
C1_Witness ==
    /\ call.op = "get_schedule"
    /\ call.load = "Ok"
    /\ call.fetch = "none"
    /\ has_invalid_event(call.data, now)

(***************************************************************************)
(* C2 as claimed: after a get_schedule call that fetched successfully, the *)
(* next call for the same league less than 5 minutes later returns the     *)
(* same events and does not fetch.                                         *)
(***************************************************************************)
SecondCallReuses(slug) ==
    /\ call'.fetch = "none"
    /\ call'.ret = "Some"
    /\ call'.data = last[slug].data

C2_Original ==
    [][\A slug \in Slugs :
         /\ Called("get_schedule") /\ call'.key = CachePath(slug)
         /\ last[slug].fetched
         /\ now - last[slug].at < Minutes(5)
         => SecondCallReuses(slug)]_vars

(***************************************************************************)
(* C2 amended: ... that fetched successfully and wrote the cache record,   *)
(* the next call less than 5 minutes later, if its read of the record does *)
(* not fail, returns the same events and does not fetch.                   *)
(***************************************************************************)
C2_SecondCallWithinDebounce ==
    [][\A slug \in Slugs :
         /\ Called("get_schedule") /\ call'.key = CachePath(slug)
         /\ last[slug].fetched /\ last[slug].cached
         /\ now - last[slug].at < Minutes(5)
         /\ call'.load # "IOError"
         => SecondCallReuses(slug)]_vars

\* the second call ran 4 minutes after the first and was served from the cache
C2_Witness ==
    /\ call.op = "get_schedule"
    /\ call.fetch = "none"
    /\ call.ret = "Some"
    /\ \E slug \in Slugs :
        /\ call.key = CachePath(slug)
        /\ last[slug] = NoLast
        /\ written[call.key] = Some(call.data)
        /\ disk[call.key].mtime > 0
        /\ now - disk[call.key].mtime = Minutes(4)

(***************************************************************************)
(* C3 as claimed: get_leagues reuses the cached list exactly when its age  *)
(* is strictly less than 7 days, and fetches at 7 days or more.            *)
(***************************************************************************)
C3_Original ==
    [][Called("get_leagues") /\ call'.load = "Ok"
       => (call'.fetch = "none") = (Age(LeaguesKey) < Days(7))]_vars

(***************************************************************************)
(* C3 amended: get_leagues reuses the cached list exactly when its age is  *)
(* at most 7 days (exactly 7 days included), and fetches when it is older. *)
(***************************************************************************)
C3_LeaguesSevenDays ==
    [][Called("get_leagues") /\ call'.load = "Ok"
       => /\ (call'.fetch = "none") = (Age(LeaguesKey) <= Days(7))
          /\ call'.fetch = "none" => call'.ret = "Some" /\ Some(call'.data) = written[LeaguesKey]]_vars

\* a list exactly 7 days old was returned from the cache
C3_Witness ==
    /\ call.op = "get_leagues"
    /\ call.fetch = "none"
    /\ call.ret = "Some"
    /\ now - disk[LeaguesKey].mtime = Days(7)

(***************************************************************************)
(* C4: when the record is missing, unreadable or judged stale and the      *)
(* remote fetch fails, get_leagues and get_schedule return None, not the   *)
(* stale cached value, and leave the file of the key as it was.            *)
(***************************************************************************)
C4_FetchFailureIsNone ==
    [][CalledAny /\ call'.fetch = "err"
       => /\ call'.verdict # "Fresh"
          /\ call'.ret = "None"
          /\ call'.data = <<>>
          /\ disk' = disk]_vars

\* a stale but readable record was at hand when the fetch failed
C4_Witness ==
    /\ call.op = "get_schedule"
    /\ call.load = "Ok"
    /\ call.verdict \in {"TooOld", "ContentInvalid"}
    /\ call.fetch = "err"
    /\ call.ret = "None"

(***************************************************************************)
(* C5 as claimed: whenever get_leagues or get_schedule returns data that a *)
(* successful fetch obtained, the file of the key holds exactly that data  *)
(* with its timestamp set to the time of the call.                         *)
(***************************************************************************)
ReturnedFetched == CalledAny /\ call'.fetch = "ok" /\ call'.ret = "Some"

C5_Original ==
    [][ReturnedFetched => Holds(call'.key, call'.data)]_vars

(***************************************************************************)
(* C5 amended: whenever get_leagues or get_schedule returns data that a    *)
(* successful fetch obtained, it has attempted the cache write; if the     *)
(* write succeeded the file of the key holds exactly that data with its    *)
(* timestamp updated; if it failed the data is returned all the same and   *)
(* the file is either untouched or cut off.  No other key's file changes.  *)
(***************************************************************************)
C5_FetchedDataIsCached ==
    [][ReturnedFetched
       => /\ call'.wrote \in WriteOutcomes
          /\ call'.wrote = "ok" => Holds(call'.key, call'.data)
          /\ call'.wrote \in WriteFailures
               => disk'[call'.key] \in {disk[call'.key], File(Truncated, now)}
          /\ \A k \in Keys \ {call'.key} : disk'[k] = disk[k]]_vars

\* fetched data replaced an older record
C5_Witness ==
    /\ call.op = "get_schedule"
    /\ call.load = "Ok"
    /\ call.fetch = "ok"
    /\ call.wrote = "ok"
    /\ call.ret = "Some"
    /\ written[call.key] = Some(call.data)
    /\ disk[call.key].mtime = now
    /\ now > 0

(***************************************************************************)
(* C6 as claimed: any failure of the cache (record not found, corrupt,     *)
(* I/O error on read or write) and any fetch failure during a call makes   *)
(* the call return None.                                                   *)
(***************************************************************************)
C6_Original ==
    call.op # "none"
    /\ (call.load \in LoadFailures \/ call.wrote \in WriteFailures \/ call.fetch = "err")
    => call.ret = "None"

(***************************************************************************)
(* C6 amended: no failure of the cache or of the fetch is returned as an   *)
(* error.  A failed cache read (not found, corrupt, I/O error) makes the   *)
(* call fetch; a failed fetch makes it return None; a failed cache write   *)
(* is only logged and the call still returns the fetched data.  So a call  *)
(* that fetches returns None exactly when the fetch fails.                 *)
(***************************************************************************)
C6_FailuresAbsorbed ==
    call.op # "none" =>
        /\ call.load \in LoadFailures => call.fetch # "none"
        /\ call.fetch = "err" => call.ret = "None"
        /\ call.wrote \in WriteFailures => call.fetch = "ok" /\ call.ret = "Some"
        /\ call.ret = "None" <=> call.fetch = "err"

\* the record was corrupt, the fetch succeeded, the write failed: data returned
C6_Witness ==
    /\ call.op # "none"
    /\ call.load = "Corrupt"
    /\ call.fetch = "ok"
    /\ call.wrote \in WriteFailures
    /\ call.ret = "Some"

(***************************************************************************)
(* C7 as claimed: a call answered from a fresh record neither fetches nor  *)
(* writes, so the record is unchanged; the timestamp of a record changes   *)
(* only on a successful write.                                             *)
(***************************************************************************)
AnsweredFromCache == CalledAny /\ call'.verdict = "Fresh"

ReadLeavesRecord ==
    AnsweredFromCache
    => /\ call'.fetch = "none"
       /\ call'.wrote = "none"
       /\ call'.ret = "Some"
       /\ disk' = disk

Restamped(key) == disk'[key].exists /\ (~disk[key].exists \/ disk'[key].mtime # disk[key].mtime)

C7_Original ==
    [][/\ ReadLeavesRecord
       /\ \A k \in Keys : Restamped(k) => CalledAny /\ call'.key = k /\ call'.wrote = "ok"]_vars

(***************************************************************************)
(* C7 amended: a call answered from a fresh record neither fetches nor     *)
(* writes, so the record is unchanged; the timestamp of a record changes   *)
(* only when a call writes it: on a successful write, or on a failed one   *)
(* that had already created (and so cut off) the file.                     *)
(***************************************************************************)
C7_ReadKeepsTimestamp ==
    [][/\ ReadLeavesRecord
       /\ \A k \in Keys :
            Restamped(k) => CalledAny /\ call'.key = k /\ call'.wrote \in {"ok", "write_all"}]_vars

\* a record written during the run was read back later, its timestamp as written
C7_Witness ==
    /\ call.op \in {"get_leagues", "get_schedule"}
    /\ call.verdict = "Fresh"
    /\ call.ret = "Some"
    /\ disk[call.key].mtime > 0
    /\ disk[call.key].mtime < now

(***************************************************************************)
(* C8: a completed cache write of v under k followed by a read of k (one   *)
(* the file system lets through) yields exactly v, stamped with the file's *)
(* modification time; a read of a key never written fails with NotFound.   *)
(***************************************************************************)
RoundTrip(k) ==
    /\ written[k].some
         => load_from_cache(disk[k], KindOf(k), "none")
            = [kind |-> "Ok", data |-> Unwrap(written[k]), time |-> disk[k].mtime]
    /\ ~disk[k].exists
         => \A fault \in ReadFaults :
              load_from_cache(disk[k], KindOf(k), fault).kind = "NotFound"

C8_CacheRoundTrip ==
    /\ [](\A k \in Keys : RoundTrip(k))
    /\ [][CalledAny
          => /\ written[call'.key].some => call'.load \in {"Ok", "IOError"}
             /\ call'.load = "Ok" /\ call'.verdict = "Fresh"
                  => Some(call'.data) = written[call'.key]
             /\ ~disk[call'.key].exists => call'.load = "NotFound"]_vars

\* events written under a non-zero UTC offset were read back by a later call
C8_Witness ==
    /\ call.op = "get_schedule"
    /\ call.load = "Ok"
    /\ call.verdict = "Fresh"
    /\ disk[call.key].mtime > 0
    /\ tz # 0
    /\ Len(call.data) > 0
    /\ Some(call.data) = written[call.key]

(***************************************************************************)
(* C9 as claimed: for a non-empty sorted list, any prior offset, any       *)
(* selected index inside the list and any max_height, get_events_bounds    *)
(* returns (first, last) with first <= selected < last and last - first    *)
(* > 0.                                                                    *)
(***************************************************************************)
Bounded == frame.kind \in {"ok", "panic"} /\ frame.selected.some

C9_WindowHoldsSelected ==
    Bounded
    => /\ frame.kind = "ok"
       /\ frame.first <= Unwrap(frame.selected)
       /\ Unwrap(frame.selected) < frame.last
       /\ frame.last - frame.first > 0

\* the same for regions in which an event under its date header fits
ContainmentFromFourRows ==
    Bounded /\ frame.max_height >= DATE_HEIGHT + EVENT_HEIGHT
    => /\ frame.kind = "ok"
       /\ frame.first <= Unwrap(frame.selected)
       /\ Unwrap(frame.selected) < frame.last
       /\ frame.last - frame.first > 0

(***************************************************************************)
(* C10 as claimed: if the selection moves by one and still lies inside the *)
(* window of the previous frame, the window of the next frame, computed    *)
(* from offset = previous first over the same list with the same           *)
(* max_height, is the same (first, last).                                  *)
(***************************************************************************)
\* this step draws the frame after a move of the selection by one that
\* stayed inside the window of the frame before
MovedInsideWindow ==
    /\ frame.kind = "ok"
    /\ frame.selected.some
    /\ frame'.kind \in {"ok", "panic"}
    /\ frame'.selected.some
    /\ frame'.max_height = frame.max_height
    /\ offset = frame.first
    /\ \/ Unwrap(frame'.selected) = Unwrap(frame.selected) + 1
       \/ Unwrap(frame'.selected) + 1 = Unwrap(frame.selected)
    /\ frame.first <= Unwrap(frame'.selected)
    /\ Unwrap(frame'.selected) < frame.last

C10_Original ==
    [][MovedInsideWindow
       => frame'.kind = "ok" /\ frame'.first = frame.first /\ frame'.last = frame.last]_vars

(***************************************************************************)
(* C10 amended: if the selection moves by one and still lies inside the    *)
(* window of the previous frame, the window of the next frame, computed    *)
(* from offset = previous first over the same list with the same           *)
(* max_height, has the same first and a last that is the same or larger.   *)
(***************************************************************************)
C10_FirstStable ==
    [][MovedInsideWindow
       => frame'.kind = "ok" /\ frame'.first = frame.first /\ frame'.last >= frame.last]_vars

\* a frame drawn after a move up inside a window that had been cut right
\* after the selection: the window starts where it did and ends later
C10_Witness ==
    /\ frame.kind = "ok"
    /\ frame.before.kind = "ok"
    /\ frame.selected.some
    /\ frame.before.selected.some
    /\ frame.max_height = frame.before.max_height
    /\ Unwrap(frame.selected) + 1 = Unwrap(frame.before.selected)
    /\ frame.before.first <= Unwrap(frame.selected)
    /\ frame.first = frame.before.first
    /\ frame.last > frame.before.last

(***************************************************************************)
(* C11: after every render of a non-empty visible sequence, whatever       *)
(* scrolls, select_today calls, activations and arrivals of data came      *)
(* before it, a selection Some(i) has offset <= i < len and row i lies in  *)
(* the window computed for that render.                                    *)
(***************************************************************************)
\* the frame on the screen is one render_ref completed for a list with events
DrewEvents == pc = "next" /\ frame.kind = "ok"

C11_SelectedRowInWindow ==
    DrewEvents /\ selected.some
    => /\ offset <= Unwrap(selected)
       /\ Unwrap(selected) < Len(events)
       /\ frame.first <= Unwrap(selected)
       /\ Unwrap(selected) < frame.last

\* the same for regions in which an event under its date header fits
SelectedRowInWindowFromFourRows ==
    DrewEvents /\ selected.some /\ max_height >= DATE_HEIGHT + EVENT_HEIGHT
    => /\ offset <= Unwrap(selected)
       /\ Unwrap(selected) < Len(events)
       /\ frame.first <= Unwrap(selected)
       /\ Unwrap(selected) < frame.last

(***************************************************************************)
(* C12: whenever the visible event sequence is empty at a render, the      *)
(* viewport state after that render has selected = None and offset = 0.    *)
(***************************************************************************)
\* the frame on the screen is one render_ref made of an empty list
DrewNothing == pc = "next" /\ frame.kind = "empty"

C12_EmptyResetsViewport == DrewNothing => selected = None /\ offset = 0

(***************************************************************************)
(* C13 as claimed: scroll_up and scroll_down select the current offset     *)
(* when nothing is selected and otherwise move the selection by n, the     *)
(* result saturated at the bounds of the sequence: never below 0, never    *)
(* above len - 1, no wraparound.                                           *)
(***************************************************************************)
\* this step is a scroll of the schedule by one row
ScrollUp == mode = "Events" /\ Key(handle_up)

ScrollDown == mode = "Events" /\ Key(handle_down)

\* this step draws a list with events while something is selected
DrawsSelected == pc = "draw" /\ pc' # "draw" /\ events # <<>> /\ selected.some

C13_Original ==
    [][/\ ScrollUp /\ events # <<>>
          => /\ selected' = IF selected.some THEN Some(SatSub(Unwrap(selected), 1))
                            ELSE Some(offset)
             /\ Unwrap(selected') <= Len(events) - 1
       /\ ScrollDown /\ events # <<>>
          => /\ selected' = IF selected.some
                            THEN Some(Min2(Unwrap(selected) + 1, Len(events) - 1))
                            ELSE Some(offset)
             /\ Unwrap(selected') <= Len(events) - 1]_vars

(***************************************************************************)
(* C13 amended: scroll_up and scroll_down select the current offset when   *)
(* nothing is selected and otherwise move the selection by n; scroll_up    *)
(* saturates at 0, scroll_down does not stop at len - 1 (it saturates at   *)
(* the largest usize only); the next render that draws a non-empty         *)
(* sequence brings a selection above len - 1 down to len - 1. No           *)
(* wraparound.                                                             *)
(***************************************************************************)
C13_ScrollThenClamp ==
    [][/\ ScrollUp
          => /\ selected' = IF selected.some THEN Some(SatSub(Unwrap(selected), 1))
                            ELSE Some(offset)
             /\ Unwrap(selected') >= 0
       /\ ScrollDown
          => selected' = IF selected.some THEN Some(Unwrap(selected) + 1)
                         ELSE Some(offset)
       /\ DrawsSelected
          => selected' = Some(Min2(Unwrap(selected), Len(events) - 1))]_vars

\* a scroll down from the last row has left the selection one past the end
\* of the list, and the frame that will clamp it is due
C13_Witness ==
    /\ pc = "draw"
    /\ mode = "Events"
    /\ events # <<>>
    /\ selected = Some(Len(events))
    /\ offset < Len(events)

(***************************************************************************)
(* C14: on a non-empty visible sequence sorted by start_time, select_today *)
(* sets selected to the smallest index whose event has start_time >= now   *)
(* or is in progress, or to len - 1 when no event qualifies, and sets      *)
(* offset equal to selected.                                               *)
(***************************************************************************)
\* this step runs select_today: on the key for it, after a league was
\* toggled, after a schedule arrived
SelectsToday ==
    \/ Key(GotoToday)
    \/ Key(handle_select) /\ mode = "Leagues" /\ Leagues_select(leagues, list_state).report.some
    \/ Receive /\ Head(queue).kind = "RecieveSchedule"

Sorted(evs) == \A i, j \in 1..Len(evs) : i <= j => evs[i].start_time <= evs[j].start_time

FromNowOrRunning(event) == event.start_time >= now \/ event.state.tag = "InProgress"

TodayIndex(evs, k) ==
    /\ k \in 0..(Len(evs) - 1)
    /\ IF \E i \in 1..Len(evs) : FromNowOrRunning(evs[i])
       THEN FromNowOrRunning(evs[k + 1]) /\ \A i \in 1..k : ~FromNowOrRunning(evs[i])
       ELSE k = Len(evs) - 1

C14_SelectToday ==
    [][SelectsToday /\ events' # <<>> /\ Sorted(events')
       => /\ selected'.some
          /\ TodayIndex(events', Unwrap(selected'))
          /\ offset' = Unwrap(selected')]_vars

\* select_today has just chosen a match in progress that started before now,
\* behind an event that is over
C14_Witness ==
    /\ pc = "draw"
    /\ selected.some
    /\ Unwrap(selected) > 0
    /\ Unwrap(selected) < Len(events)
    /\ offset = Unwrap(selected)
    /\ events[Unwrap(selected) + 1].state.tag = "InProgress"
    /\ events[Unwrap(selected) + 1].start_time < now
    /\ \E i \in 1..Len(events) : events[i].start_time >= now

(***************************************************************************)
(* C15: the sequence the viewport and select_today consume is exactly the  *)
(* union of the stored collections of the active league ids, sorted        *)
(* ascending by start_time; the events of a league that was fetched but is *)
(* not active stay stored and never appear in it.                          *)
(***************************************************************************)
\* the events of one league among those shown, in the order shown
ShownOf(league) == SelectSeq(events, LAMBDA event : event.league_name = league.name)

StoredAndActive(league) == league.id \in DOMAIN store /\ league.id \in Range(active)

\* a step that changes the active list leaves what is stored as it is
InactiveStayStored == [][active' # active => store' = store]_vars

C15_VisibleAreActiveSorted ==
    /\ [](/\ Sorted(events)
          /\ \A i \in 1..Len(AppLeagues) :
               ShownOf(AppLeagues[i]) = IF StoredAndActive(AppLeagues[i])
                                        THEN store[AppLeagues[i].id] ELSE <<>>)
    /\ InactiveStayStored

\* both leagues are stored, one of them is active: its events are the ones
\* shown, those of the other are stored and not shown
C15_Witness ==
    /\ DOMAIN store = {"lck", "lec"}
    /\ store["lck"] # <<>>
    /\ active = <<"lec">>
    /\ events = store["lec"]
    /\ events # <<>>
    /\ frame.kind \in {"ok", "panic"}

(***************************************************************************)
(* C16: add_events(league_id, events) makes the stored collection of       *)
(* league_id equal to events, discarding what was stored for it, and       *)
(* leaves the collections of the other leagues and the active set          *)
(* unchanged.                                                              *)
(***************************************************************************)
\* this step handles the schedule of a league that a task sent
AddsEvents == Receive /\ Head(queue).kind = "RecieveSchedule"

C16_AddEventsReplaces ==
    [][AddsEvents
       => /\ DOMAIN store' = DOMAIN store \cup {Head(queue).slug}
          /\ store'[Head(queue).slug] = Head(queue).data
          /\ \A slug \in DOMAIN store \ {Head(queue).slug} : store'[slug] = store[slug]
          /\ active' = active]_vars

\* the schedule about to be added is for a league that has other events
\* stored, next to a second league with events of its own
C16_Witness ==
    /\ pc = "next"
    /\ queue # <<>>
    /\ Head(queue).kind = "RecieveSchedule"
    /\ Head(queue).slug \in DOMAIN store
    /\ store[Head(queue).slug] # <<>>
    /\ store[Head(queue).slug] # Head(queue).data
    /\ DOMAIN store # {Head(queue).slug}
    /\ active # <<>>

(***************************************************************************)
(* C17: set_active(x) applied twice gives the same active set as applied   *)
(* once; unset_active(x) for an id that is not active leaves the active    *)
(* set unchanged.                                                          *)
(***************************************************************************)
Absent(act, x) == \A i \in 1..Len(act) : act[i] # x

C17_ActiveIdempotent ==
    \A x \in LeagueIds :
        /\ set_active(set_active(active, x), x) = set_active(active, x)
        /\ set_active(active, x) = IF Absent(active, x) THEN active \o <<x>> ELSE active
        /\ Absent(active, x) => unset_active(active, x) = active

Flagged == {i \in 1..Len(leagues) : leagues[i].selected}

\* the league list was reloaded and a league that was still active has been
\* selected again: set_active met an id that was there, the list holds it
\* once; the other league, not flagged, is active as well
C17_Witness ==
    /\ Len(active) = 2
    /\ Cardinality(Flagged) = 1
    /\ active[1] # active[2]

(***************************************************************************)
(* C18: after any sequence of set_active and unset_active calls the active *)
(* list holds no id twice, its order is the order of insertion, and after  *)
(* unset_active(x) the id x does not occur in it.                          *)
(***************************************************************************)
NoDuplicates(act) == \A i, j \in 1..Len(act) : act[i] = act[j] => i = j

\* the list after is the list before with x pushed at the end, or with x
\* taken out and the rest in the order it had
Pushed(x) == Absent(active, x) /\ active' = active \o <<x>>

Removed(x) == active' = SelectSeq(active, LAMBDA slug : slug # x)

\* this step is the toggle of a league that was flagged: unset_active(x)
Deselects(x) ==
    /\ Key(handle_select)
    /\ mode = "Leagues"
    /\ Leagues_select(leagues, list_state).report = Some(<<FALSE, x>>)

C18_ActiveInInsertionOrder ==
    /\ []NoDuplicates(active)
    /\ [][/\ active' # active => \E x \in LeagueIds : Pushed(x) \/ Removed(x)
          /\ \A x \in LeagueIds : Deselects(x) => Removed(x) /\ Absent(active', x)]_vars

\* the second league of the list was made active before the first: the
\* active list has them in that order
C18_Witness ==
    /\ Len(leagues) = 2
    /\ Flagged = {1, 2}
    /\ active = <<leagues[2].id, leagues[1].id>>

(***************************************************************************)
(* C19: Leagues::select flips the selected flag of the league under the    *)
(* cursor and reports (new flag, id); applied twice it restores the flag;  *)
(* with no cursor, or a cursor past the end of the list, it changes        *)
(* nothing and reports nothing.                                            *)
(***************************************************************************)
\* the cursors a list state can hold: none, a row, rows past the end
Cursors == {None} \cup {Some(i) : i \in 0..(Len(leagues) + 1)}

OnLeague(cursor) == cursor.some /\ Unwrap(cursor) + 1 \in 1..Len(leagues)

\* ls is the league list with the flag of row i flipped and nothing else
FlippedAt(ls, i) ==
    /\ Len(ls) = Len(leagues)
    /\ \A k \in 1..Len(leagues) :
         /\ ls[k].id = leagues[k].id
         /\ ls[k].name = leagues[k].name
         /\ ls[k].selected = IF k = i THEN ~leagues[k].selected ELSE leagues[k].selected

\* this step is the select key with the league pane in focus
Toggles == Key(handle_select) /\ mode = "Leagues"

C19_SelectFlips ==
    /\ [](\A cursor \in Cursors :
            IF OnLeague(cursor)
            THEN /\ FlippedAt(Leagues_select(leagues, cursor).leagues, Unwrap(cursor) + 1)
                 /\ Leagues_select(leagues, cursor).report
                      = Some(<<~leagues[Unwrap(cursor) + 1].selected,
                               leagues[Unwrap(cursor) + 1].id>>)
                 /\ Leagues_select(Leagues_select(leagues, cursor).leagues, cursor).leagues
                      = leagues
            ELSE /\ Leagues_select(leagues, cursor).leagues = leagues
                 /\ Leagues_select(leagues, cursor).report = None)
    /\ [][Toggles => IF OnLeague(list_state)
                     THEN FlippedAt(leagues', Unwrap(list_state) + 1)
                     ELSE leagues' = leagues /\ active' = active]_vars

\* the league under the cursor is flagged after a toggle and the one above it
\* is not; a second toggle is possible once the frame is drawn
C19_Witness ==
    /\ pc = "draw"
    /\ mode = "Leagues"
    /\ list_state = Some(1)
    /\ Flagged = {2}
    /\ active = <<leagues[2].id>>

(***************************************************************************)
(* C20: no two background tasks in flight at the same time read or write   *)
(* the same cache file, whatever leagues are activated, default leagues    *)
(* selected and reloads requested.                                         *)
(***************************************************************************)
C20_NoSharedCacheFile ==
    \A i, j \in 1..Len(tasks) : i # j => TaskKey(tasks[i]) # TaskKey(tasks[j])

(***************************************************************************)
(* C21 as claimed: every fetch dispatched to the background, once it       *)
(* completes, successfully or not, puts exactly one message on the channel *)
(* to the owner, and the owner applies the messages one at a time in the   *)
(* order they were sent.                                                   *)
(***************************************************************************)
\* this step is the end of a call of a task
FetchCompletes == call' # NoCall

\* the message a task sends for the call that has just ended
Reported ==
    IF call'.op = "get_leagues" THEN Message("RecieveLeagues", "", call'.data)
    ELSE Message("RecieveSchedule",
                 CHOOSE id \in LeagueIds : CachePath(id) = call'.key, call'.data)

\* the owner has applied the message at the head of the channel
AppliedHead ==
    /\ queue' = Tail(queue)
    /\ Head(queue).kind = "RecieveSchedule"
       => Head(queue).slug \in DOMAIN store' /\ store'[Head(queue).slug] = Head(queue).data
    /\ Head(queue).kind = "RecieveLeagues" => leagues' = Head(queue).data
    /\ Head(queue).kind = "ReloadLeagues" => Len(tasks') = Len(tasks) + 1

InOrder == [][call' = NoCall /\ queue' # queue => AppliedHead]_vars

C21_Original ==
    /\ [][FetchCompletes => queue' = Append(queue, Reported)]_vars
    /\ InOrder

(***************************************************************************)
(* C21 amended: every fetch dispatched to the background that completes    *)
(* with data puts exactly one message on the channel to the owner, one     *)
(* that completes without data (or panics) puts none, and the owner        *)
(* applies the messages one at a time in the order they were sent.         *)
(***************************************************************************)
C21_OneMessagePerResult ==
    /\ [][FetchCompletes => queue' = IF call'.ret = "Some" THEN Append(queue, Reported)
                                     ELSE queue]_vars
    /\ InOrder

\* a fetch has just put its message behind one of another league that the
\* owner has not applied yet
C21_Witness ==
    /\ call.ret = "Some"
    /\ call.fetch = "ok"
    /\ Len(queue) = 2
    /\ queue[1].kind = "RecieveSchedule"
    /\ queue[2].kind = "RecieveSchedule"
    /\ queue[1].slug # queue[2].slug
    /\ CachePath(queue[2].slug) = call.key

(***************************************************************************)
(* C22 as claimed: if a league is deselected after its fetch was           *)
(* dispatched and before the result arrives, the fetch still runs to       *)
(* completion, its result is written to the cache and stored in the event  *)
(* index when the message is applied, and the league's events are absent   *)
(* from the visible sequence for as long as the league stays inactive.     *)
(***************************************************************************)
\* a task has still to fetch the schedule of x
InFlight(x) ==
    \E i \in 1..Len(tasks) :
        tasks[i].op = "get_schedule" /\ \E j \in 1..Len(tasks[i].todo) : tasks[i].todo[j] = x

\* the league whose schedule the call that has just ended was for
FetchedSlug == CHOOSE id \in LeagueIds : CachePath(id) = call'.key

\* the call that has just ended fetched the schedule of a league that is
\* no longer active
FetchedInactive ==
    /\ FetchCompletes
    /\ call'.op = "get_schedule"
    /\ call'.fetch = "ok"
    /\ call'.ret = "Some"
    /\ Absent(active, FetchedSlug)

\* the owner applies the schedule of a league that is not active
AppliesInactive == AddsEvents /\ Absent(active, Head(queue).slug)

\* deselecting takes no task away, the message of an inactive league is
\* stored and shown nowhere, and nothing of an inactive league is shown
DeselectedStillFetched ==
    /\ [][\A x \in LeagueIds : Deselects(x) /\ InFlight(x) => tasks' = tasks]_vars
    /\ [][FetchedInactive => queue' = Append(queue, Reported)]_vars
    /\ [][AppliesInactive
          => /\ Head(queue).slug \in DOMAIN store'
             /\ store'[Head(queue).slug] = Head(queue).data
             /\ events' = events]_vars
    /\ [](\A i \in 1..Len(AppLeagues) :
             Absent(active, AppLeagues[i].id) => ShownOf(AppLeagues[i]) = <<>>)

C22_Original ==
    /\ DeselectedStillFetched
    /\ [][FetchedInactive => Holds(call'.key, call'.data)]_vars

(***************************************************************************)
(* C22 amended: if a league is deselected after its fetch was dispatched   *)
(* and before the result arrives, the fetch still runs to completion, its  *)
(* result is written to the cache when the cache write succeeds (a failed  *)
(* write leaves the record untouched or cut off) and is stored in the      *)
(* event index when the message is applied, and the league's events are    *)
(* absent from the visible sequence for as long as the league stays        *)
(* inactive.                                                               *)
(***************************************************************************)
C22_DeselectedFetchCompletes ==
    /\ DeselectedStillFetched
    /\ [][FetchedInactive
          => /\ call'.wrote = "ok" => Holds(call'.key, call'.data)
             /\ call'.wrote \in WriteFailures
                  => disk'[call'.key] \in {disk[call'.key], File(Truncated, now)}]_vars

\* the fetch of a league that was deselected while it was in flight has
\* just ended: its schedule is written and is the last message sent to the
\* owner, and nothing is shown
C22_Witness ==
    \E x \in LeagueIds :
       /\ Absent(active, x)
       /\ call.key = CachePath(x)
       /\ call.fetch = "ok"
       /\ call.wrote = "ok"
       /\ call.ret = "Some"
       /\ written[CachePath(x)] = Some(call.data)
       /\ queue # <<>>
       /\ queue[Len(queue)] = Message("RecieveSchedule", x, call.data)
       /\ events = <<>>

(***************************************************************************)
(* C23: each league's fetch is its own background task: when several       *)
(* leagues are requested, whether and when the fetch for one league starts *)
(* and reports does not depend on the fetch for another league having      *)
(* completed.  Every league that has still to be fetched is the one some   *)
(* task is at, and the end of the call for one league, whatever its        *)
(* result, leaves the other leagues that were to be fetched in flight.     *)
(***************************************************************************)
\* a task is at x: its next call, or the one running, is for x
Fetching(x) ==
    \E i \in 1..Len(tasks) : tasks[i].op = "get_schedule" /\ Head(tasks[i].todo) = x

\* every league that has still to be fetched is the one some task is at
StartsAtOnce == \A x \in LeagueIds : InFlight(x) => Fetching(x)

\* the end of the call for one league leaves the others in flight
OthersGoOn ==
    [][FetchCompletes /\ call'.op = "get_schedule"
       => \A x \in LeagueIds \ {FetchedSlug} : InFlight(x) => InFlight(x)']_vars

C23_OwnTaskPerLeague == []StartsAtOnce /\ OthersGoOn

(***************************************************************************)
(* C24: no failure input (a missing, truncated or ill-shaped cache record, *)
(* a failed fetch, or a remote or cached event with an unparseable start   *)
(* time or fewer than two teams) drives the owner loop or a background     *)
(* task into a panic: every call of get_leagues and get_schedule returns,  *)
(* with data or with None.                                                 *)
(***************************************************************************)
C24_NoPanic == call.op # "none" => call.ret \in {"Some", "None"}

(***************************************************************************)
(* C25: after a league's fetch has failed, that league is fetched again    *)
(* only in response to a reload the user triggers (ReloadSchedule,         *)
(* ReloadLeagues); no other event, such as activating a different league,  *)
(* causes it to be fetched again.                                          *)
(***************************************************************************)
\* a message with the schedule of x waits for the owner
Sent(x) == \E i \in 1..Len(queue) : queue[i].kind = "RecieveSchedule" /\ queue[i].slug = x

\* x was activated and its fetch dispatched, the fetch is over and nothing
\* of x has reached the owner: the fetch has failed
FetchFailed(x) ==
    /\ ~Absent(active, x)
    /\ x \notin DOMAIN store
    /\ ~InFlight(x)
    /\ ~Sent(x)

\* this step answers a reload of the user
UserReload ==
    \/ Key(ReloadSchedule)
    \/ Receive /\ Head(queue).kind \in {"ReloadLeagues", "RecieveLeagues"}

C25_RefetchOnlyOnReload ==
    [][\A x \in LeagueIds : FetchFailed(x) /\ InFlight(x)' => UserReload]_vars

(***************************************************************************)
(* C26: each get_schedule call invokes the remote schedule fetch at most   *)
(* once, with no page token, and never requests a further page even when   *)
(* the response reports older or newer pages: what a call that fetched     *)
(* returns, and writes when the write succeeds, is the conversion of the   *)
(* events of the first page of one response, and nothing else.             *)
(***************************************************************************)
\* a response whose events the conversion takes
Converts(resp) ==
    resp.ok /\ \A i \in 1..Len(resp.events) : ~EventFromPanics(resp.events[i])

C26_FirstPageOnly ==
    [][Called("get_schedule") /\ call'.fetch = "ok" /\ call'.ret = "Some"
       => \E resp \in ScheduleResponses :
             /\ Converts(resp)
             /\ call'.data = EventsFrom(fetch_schedule(resp, None).events)
             /\ call'.wrote = "ok" => Holds(call'.key, EventsFrom(resp.events))]_vars

\* the response reported an older page, and the call returned the events of
\* the first page
C26_Witness ==
    /\ call.op = "get_schedule"
    /\ call.fetch = "ok"
    /\ call.ret = "Some"
    /\ FetchedSchedule(NetScheduleA, Some("b2xkZXI")) \in ScheduleResponses
    /\ call.data = EventsFrom(NetScheduleA)
    /\ written[call.key] = Some(call.data)

(***************************************************************************)
(* C27: in the middle zone (5 min <= age <= 3 days) a cached schedule is   *)
(* judged stale if and only if it contains an event whose state is the     *)
(* Unstarted variant and whose start_time is earlier than now; events in   *)
(* any other state (Completed, InProgress, Unknown with any raw label)     *)
(* never make it stale.                                                    *)
(***************************************************************************)
MiddleZone(key) == Age(key) >= Minutes(5) /\ Age(key) <= Days(3)

\* an event of the Unstarted variant that should have started
HasOverdueUnstarted(evs, t) ==
    \E i \in 1..Len(evs) : evs[i].state.tag = "Unstarted" /\ evs[i].start_time < t

C27_StaleIffOverdueUnstarted ==
    [][Called("get_schedule") /\ call'.load = "Ok" /\ MiddleZone(call'.key)
       => (call'.verdict # "Fresh")
          = HasOverdueUnstarted(Unwrap(written[call'.key]), now)]_vars

(***************************************************************************)
(* C28: when selected is None or lies inside the forward-filled window,    *)
(* get_events_bounds returns (f, l) with f = min(offset, len - 1) and l    *)
(* the largest index such that the accounted cost of the events f..l (2    *)
(* rows per event plus 2 rows per distinct calendar day among them) is     *)
(* <= max_height, so that adding event l would exceed max_height.          *)
(***************************************************************************)
\* the rows of the events first..last (last not included): EVENT_HEIGHT for
\* each and DATE_HEIGHT for each day on which one of them starts
Cost(evs, first_index, last_index) ==
    EVENT_HEIGHT * (last_index - first_index)
    + DATE_HEIGHT * Cardinality({date_naive(evs[i]) : i \in (first_index + 1)..last_index})

\* this step is a frame for which get_events_bounds is called
DrawsWindow == pc = "draw" /\ pc' # pc /\ max_height > 0 /\ events # <<>>

\* min(offset, len - 1)
ClampedOffset == IF offset <= Len(events) - 1 THEN offset ELSE Len(events) - 1

\* the largest end of a window at the clamped offset that fits the region
FilledEnd ==
    CHOOSE l \in ClampedOffset..Len(events) :
        /\ Cost(events, ClampedOffset, l) <= max_height
        /\ \A m \in ClampedOffset..Len(events) :
              Cost(events, ClampedOffset, m) <= max_height => m <= l

\* the selection the call is given lies inside the forward-filled window
InsideFilled ==
    /\ frame'.selected.some
    /\ ClampedOffset <= Unwrap(frame'.selected)
    /\ Unwrap(frame'.selected) < FilledEnd

ForwardFilled ==
    /\ frame'.kind = "ok"
    /\ frame'.first = ClampedOffset
    /\ frame'.last = FilledEnd
    /\ FilledEnd < Len(events) => Cost(events, ClampedOffset, FilledEnd + 1) > max_height

C28_ForwardFill ==
    [][DrawsWindow /\ (~frame'.selected.some \/ InsideFilled) => ForwardFilled]_vars

\* the same for regions in which an event under its date header fits
ForwardFillFromFourRows ==
    [][/\ DrawsWindow
       /\ max_height >= DATE_HEIGHT + EVENT_HEIGHT
       /\ ~frame'.selected.some \/ InsideFilled
       => ForwardFilled]_vars

(***************************************************************************)
(* C29: when selected lies at or beyond the end of the forward-filled      *)
(* window and max_height >= 4, get_events_bounds returns last = selected   *)
(* + 1 and first = the smallest index >= the clamped offset for which the  *)
(* accounted cost of the events first..=selected (2 per event, 2 per       *)
(* distinct day) is <= max_height.                                         *)
(***************************************************************************)
\* the selection the call is given lies at or beyond the forward-filled end
BeyondFilled ==
    /\ max_height >= DATE_HEIGHT + EVENT_HEIGHT
    /\ frame'.selected.some
    /\ Unwrap(frame'.selected) >= FilledEnd

\* the smallest front, not before the clamped offset, of a window that ends
\* with the selection and fits the region
SmallestFirst ==
    CHOOSE f \in ClampedOffset..Unwrap(frame'.selected) :
        /\ Cost(events, f, Unwrap(frame'.selected) + 1) <= max_height
        /\ \A g \in ClampedOffset..Unwrap(frame'.selected) :
              Cost(events, g, Unwrap(frame'.selected) + 1) <= max_height => f <= g

C29_GrowForward ==
    [][DrawsWindow /\ BeyondFilled
       => /\ frame'.kind = "ok"
          /\ frame'.last = Unwrap(frame'.selected) + 1
          /\ frame'.first = SmallestFirst
          /\ Cost(events, frame'.first, frame'.last) <= max_height]_vars

\* a frame whose window ends with the selection and begins later than the
\* window of the frame before, of which it had the offset
C29_Witness ==
    /\ frame.kind = "ok"
    /\ frame.before.kind = "ok"
    /\ frame.max_height >= DATE_HEIGHT + EVENT_HEIGHT
    /\ frame.selected.some
    /\ frame.before.selected.some
    /\ Unwrap(frame.selected) >= frame.before.last
    /\ frame.last = Unwrap(frame.selected) + 1
    /\ frame.first > frame.before.first
    /\ frame.max_height = frame.before.max_height

(***************************************************************************)
(* C30: when selected lies before the clamped offset and max_height >= 4,  *)
(* get_events_bounds returns first = selected and last = the largest index *)
(* not above the forward-filled end for which the accounted cost of the    *)
(* events selected..last (2 per event, 2 per distinct day) is              *)
(* <= max_height; the height it tracks equals that accounted cost at       *)
(* return.                                                                 *)
(***************************************************************************)
\* the selection the call is given lies before the clamped offset
BeforeOffset ==
    /\ max_height >= DATE_HEIGHT + EVENT_HEIGHT
    /\ frame'.selected.some
    /\ Unwrap(frame'.selected) < ClampedOffset

\* the largest end, not above the forward-filled end, of a window that
\* begins with the selection and fits the region
LargestLast ==
    CHOOSE l \in Unwrap(frame'.selected)..FilledEnd :
        /\ Cost(events, Unwrap(frame'.selected), l) <= max_height
        /\ \A m \in Unwrap(frame'.selected)..FilledEnd :
              Cost(events, Unwrap(frame'.selected), m) <= max_height => m <= l

\* height_from_offset when the call of this frame returns
TrackedHeight ==
    get_events_bounds_locals(events, frame'.selected, offset, max_height).height

C30_GrowBackward ==
    [][DrawsWindow /\ BeforeOffset
       => /\ frame'.kind = "ok"
          /\ frame'.first = Unwrap(frame'.selected)
          /\ frame'.last = LargestLast
          /\ TrackedHeight = Cost(events, frame'.first, frame'.last)]_vars

\* a frame whose window begins with the selection, above the window of the
\* frame before, of which it had the offset, and ends earlier than that one
C30_Witness ==
    /\ frame.kind = "ok"
    /\ frame.before.kind = "ok"
    /\ frame.max_height >= DATE_HEIGHT + EVENT_HEIGHT
    /\ frame.max_height = frame.before.max_height
    /\ frame.selected.some
    /\ Unwrap(frame.selected) < frame.before.first
    /\ frame.first = Unwrap(frame.selected)
    /\ frame.last < frame.before.last
    /\ frame.last > frame.first + 1

(***************************************************************************)
(* C31: for every render with max_height >= 4, the rows the render routine *)
(* consumes for the events offset..=selected are one fewer than the height *)
(* the window estimate charges for them (the first date header costs 1 row *)
(* in the render and 2 in the estimate), so both rows of the selected      *)
(* event are always drawn inside the region.                               *)
(***************************************************************************)
\* the frame drew a window around a selection in a region of four rows or more
DrewSelection ==
    /\ frame.kind = "ok"
    /\ frame.max_height >= DATE_HEIGHT + EVENT_HEIGHT
    /\ frame.selected.some

\* the places of a row among the rows drawn, counted from 1
PlacesOf(row) == {n \in 1..Len(frame.rows) : frame.rows[n] = row}

C31_RenderOneRowLess ==
    DrewSelection
    => /\ PlacesOf(Row("low", Unwrap(frame.selected)))
            = {Cost(events, frame.first, Unwrap(frame.selected) + 1) - 1}
       /\ PlacesOf(Row("top", Unwrap(frame.selected)))
            = {Cost(events, frame.first, Unwrap(frame.selected) + 1) - 2}
       /\ Cost(events, frame.first, Unwrap(frame.selected) + 1) - 1 <= frame.max_height
       /\ Len(frame.rows) <= frame.max_height

\* the selected event is not the first of the window, a second day begins
\* before it, and the estimate for the events up to it is the whole region
C31_Witness ==
    /\ DrewSelection
    /\ Unwrap(frame.selected) > frame.first
    /\ Cost(events, frame.first, Unwrap(frame.selected) + 1) = frame.max_height
    /\ \E n \in 1..Len(frame.rows) : frame.rows[n].what = "line"
    /\ frame.rows[Len(frame.rows)] = Row("low", Unwrap(frame.selected))

(***************************************************************************)
(* C32: for every non-empty event list, every offset, every selected value *)
(* (None or an index < len) and every max_height >= 1 (including 1, 2 and  *)
(* 3, where not even one event with its date header fits),                 *)
(* get_events_bounds terminates without indexing outside the list and      *)
(* without decrementing an index below zero.                               *)
(***************************************************************************)
C32_BoundsNeverPanic == frame.kind # "panic"

\* the same for regions in which an event under its date header fits
NoPanicFromFourRows ==
    frame.max_height >= DATE_HEIGHT + EVENT_HEIGHT => frame.kind # "panic"

(***************************************************************************)
(* C33: between replacements of the league list, after any sequence of     *)
(* Select toggles and default-league selections, the active set of the     *)
(* event index equals the set of ids of the leagues whose selected flag is *)
(* true.                                                                   *)
(***************************************************************************)
FlaggedIds == {leagues[i].id : i \in Flagged}

C33_ActiveAreFlagged == Range(active) = FlaggedIds

\* a toggle keeps the two sets equal when they were
TogglesKeepActiveFlagged ==
    [][Key(handle_select) /\ Range(active) = FlaggedIds
       => Range(active') = {leagues'[i].id : i \in {j \in 1..Len(leagues') : leagues'[j].selected}}]_vars

(***************************************************************************)
(* C34: once every dispatched background task has finished and the channel *)
(* has been drained, for every league for which a schedule message was     *)
(* applied, the events stored in the event index equal the content of that *)
(* league's cache file, even when several tasks fetched the same league    *)
(* concurrently and their cache writes succeeded.                          *)
(***************************************************************************)
Quiescent == tasks = <<>> /\ queue = <<>>

C34_StoreEqualsCache ==
    Quiescent
    => \A x \in DOMAIN store :
          /\ disk[CachePath(x)].exists
          /\ from_slice("schedule", disk[CachePath(x)].bytes) = [ok |-> TRUE, data |-> store[x]]

(***************************************************************************)
(* C35: with automatic reload enabled, the activation of a league          *)
(* dispatches a task that is to fetch it, and under fair scheduling of the *)
(* tasks and of the owner loop a league that is active and in flight       *)
(* leads to a state where its events are stored and part of the visible    *)
(* sequence, unless it is deactivated or its fetch does not succeed.       *)
(***************************************************************************)
\* x is active and a task has still to fetch it
Pending(x) == ~Absent(active, x) /\ InFlight(x)

\* what is stored for x is in the visible sequence
Shown(x) ==
    /\ x \in DOMAIN store
    /\ \A j \in 1..Len(store[x]) : \E k \in 1..Len(events) : events[k] = store[x][j]

\* a fetch of x did not succeed: the call of a task that has just ended was
\* one for x that returned None, or one that ended its task
Failed(x) ==
    \/ call.ret = "Panic"
    \/ call.op = "get_schedule" /\ call.key = CachePath(x) /\ call.ret = "None"

ActivationDispatches ==
    [][\A x \in LeagueIds :
          Absent(active, x) /\ ~Absent(active', x) /\ config.automatic_reload
          => InFlight(x)']_vars

C35_EventuallyShown ==
    /\ ActivationDispatches
    /\ \A x \in LeagueIds : Pending(x) ~> (Shown(x) \/ Absent(active, x) \/ Failed(x))

\* the second league is active and its fetched events, stored for the first
\* time, are on the screen under those of the first
C35_Witness ==
    /\ call = NoCall
    /\ Len(active) = 2
    /\ Shown(active[2])
    /\ store[active[2]] # <<>>
    /\ Shown(active[1])
    /\ store[active[1]] # <<>>
    /\ written[CachePath(active[2])].some

(***************************************************************************)
(* C36: each schedule reload dispatches one task for exactly the leagues   *)
(* whose selected flag is true when it is dispatched (all of them, not     *)
(* only a newly activated one), in the order of the league list, and a     *)
(* task sends the message of the league at the head of what it has left    *)
(* before it goes on to the next; when no league is selected nothing is    *)
(* dispatched, and with automatic reload disabled the activation of a      *)
(* league dispatches nothing.                                              *)
(***************************************************************************)
\* the tasks in flight after a reload with the league list ls
DispatchedFor(ls) ==
    LET flagged == SelectSeq(ls, LAMBDA league : league.selected)
    IN  IF flagged = <<>> THEN tasks
        ELSE Append(tasks, Task("get_schedule", [n \in 1..Len(flagged) |-> flagged[n].id]))

\* this step makes a league active that was not
Activates == \E x \in LeagueIds : Absent(active, x) /\ ~Absent(active', x)

\* a message with a schedule is sent by a task for the league at the head of
\* what it has left, and the task goes on to the next or ends
SendsHead ==
    Len(queue') = Len(queue) + 1 /\ queue'[Len(queue')].kind = "RecieveSchedule"
    => \E i \in 1..Len(tasks) :
          /\ tasks[i].op = "get_schedule"
          /\ Head(tasks[i].todo) = queue'[Len(queue')].slug
          /\ tasks' = IF Len(tasks[i].todo) = 1 THEN Without(tasks, i)
                      ELSE [tasks EXCEPT ![i].todo = Tail(@)]

C36_ReloadDispatchesFlagged ==
    [][/\ Key(ReloadSchedule) => tasks' = DispatchedFor(leagues)
       /\ Key(handle_select) /\ Activates
          => tasks' = IF config.automatic_reload THEN DispatchedFor(leagues') ELSE tasks
       /\ pc = "next" /\ pc' = "draw" /\ Activates /\ ~config.automatic_reload
          => tasks' = tasks
       /\ SendsHead]_vars

\* the second league has just been activated: the task dispatched for it is
\* to fetch the first as well, which a task before it is still fetching
C36_Witness ==
    /\ pc = "draw"
    /\ config.automatic_reload
    /\ active = <<"lck", "lec">>
    /\ tasks = <<Task("get_schedule", <<"lck">>), Task("get_schedule", <<"lck", "lec">>)>>

(***************************************************************************)
(* C37: applying a received-schedule message for any league, active or     *)
(* not, runs select_today again: when the visible sequence is not empty,   *)
(* the selected index and the offset the user had are replaced by the      *)
(* today index, whatever they were.                                        *)
(***************************************************************************)
\* this step applies the schedule of a league that was sent by a task
AppliesSchedule == Receive /\ Head(queue).kind = "RecieveSchedule"

C37_ScheduleResetsSelection ==
    [][AppliesSchedule /\ events' # <<>>
       => /\ selected' = Some(CHOOSE k \in 0..(Len(events') - 1) : TodayIndex(events', k))
          /\ offset' = Unwrap(selected')]_vars

\* the schedule of a league that is not active is stored, the events of the
\* other league are on the screen, the user is in the schedule pane, and
\* the event selected is the one select_today chooses
C37_Witness ==
    /\ pc = "draw"
    /\ mode = "Events"
    /\ queue = <<>>
    /\ \E x \in DOMAIN store : Absent(active, x) /\ store[x] # <<>>
    /\ Len(events) > 1
    /\ selected.some
    /\ Unwrap(selected) > 0
    /\ TodayIndex(events, Unwrap(selected))
    /\ offset = Unwrap(selected)

(***************************************************************************)
(* C38: select_today on an empty visible sequence leaves selected and      *)
(* offset exactly as they were; it neither clears the selection nor resets *)
(* the offset.                                                             *)
(***************************************************************************)
C38_SelectTodayEmptyKeeps ==
    [][SelectsToday /\ events' = <<>> => selected' = selected /\ offset' = offset]_vars

\* the last active league has been deselected: nothing is visible, and the
\* selection and the offset are those of the events that were
C38_Witness ==
    /\ pc = "draw"
    /\ events = <<>>
    /\ active = <<>>
    /\ store # <<>>
    /\ selected.some
    /\ Unwrap(selected) > 0
    /\ offset > 0

(***************************************************************************)
(* C39: in every reachable state the focus flags agree with the mode: mode *)
(* Leagues iff only the league list is focused, mode Events iff only the   *)
(* schedule is focused, mode None iff neither is focused; both are never   *)
(* focused at once; mode None is never entered again once Left or Right    *)
(* has left it; Up and Down change only the state of the pane that is      *)
(* focused, and Select changes state only in mode Leagues.                 *)
(***************************************************************************)
FocusAgrees ==
    /\ mode = "Leagues" <=> focused.leagues_state /\ ~focused.schedule_state
    /\ mode = "Events" <=> focused.schedule_state /\ ~focused.leagues_state
    /\ mode = "None" <=> ~focused.leagues_state /\ ~focused.schedule_state
    /\ ~(focused.leagues_state /\ focused.schedule_state)

NoneNotReentered == mode # "None" => mode' # "None"

\* what neither Up nor Down touches
KeepsData == UNCHANGED <<leagues, active, store, tasks, queue, mode, focused, events>>

UpDownInFocus ==
    Key(handle_up) \/ Key(handle_down)
    => /\ KeepsData
       /\ ~focused.schedule_state => UNCHANGED <<selected, offset>>
       /\ ~focused.leagues_state => UNCHANGED list_state

SelectInLeagues ==
    Key(handle_select) /\ mode # "Leagues"
    => KeepsData /\ UNCHANGED <<selected, offset, list_state>>

C39_FocusFollowsMode ==
    /\ []FocusAgrees
    /\ [][NoneNotReentered /\ UpDownInFocus /\ SelectInLeagues]_vars

\* the user has moved the selection in the schedule pane and gone back to
\* the league list, where the cursor is on the second league
C39_Witness ==
    /\ pc = "draw"
    /\ mode = "Leagues"
    /\ focused = Focus(TRUE, FALSE)
    /\ list_state = Some(1)
    /\ events # <<>>
    /\ selected.some
    /\ Unwrap(selected) < Len(events)
    /\ ~TodayIndex(events, Unwrap(selected))

====
